---- MODULE Spec2Model ----
(***************************************************************************)
(* Tripitaka.online bulk scraper: the bulk orchestrator                    *)
(* (scraper/bulk_scraper.py), the fetch chain (scraper/tripitaka_scraper.py),*)
(* the content validator and the Nikaya range table                        *)
(* (config/nikaya_config.py).                                              *)
(***************************************************************************)
EXTENDS Integers, Sequences, FiniteSets, TLC

(***************************************************************************)
(* Bounds of the model                                                     *)
(***************************************************************************)
\* identifiers in the range handed to scrape_bulk
RunLen == 3
\* batch_size argument of scrape_bulk
BatchSize == 2
\* max_workers of the orchestrator
MaxWorkers == 2
\* threads calling scrape_tripitaka_page_with_retry
NumFetchers == 2
\* calls of scrape_tripitaka_page_with_retry followed, all threads together
MaxFetches == 2
\* browser sessions created by _setup_driver
MaxSessions == 2
\* identifiers looked up on each side of a boundary of the range table
LookupMargin == 5
\* chunks a primary (Sinhala) text handed to the validator is made of
MaxChunks == 2
\* identifiers of each collection that scrape_all_nikayas is followed over
NikayaLen == 2
\* width of the windows the arguments of get_sutta_urls are drawn from
EnumSpan == 7
\* items of the range when the counter updates are followed on their own
CadenceItems == 12

(***************************************************************************)
(* Program constants                                                       *)
(***************************************************************************)
\* if self.scraped_count % 10 == 0: self.save_progress()
CheckpointEvery == 10
\* scrape_tripitaka_page: max_page_retries = 2
max_page_retries == 2
\* is_valid_tripitaka_content: len(total_content.strip()) < 500
MinContentChars == 500
\* is_valid_tripitaka_content: len(lines) > 10
MinTokens == 10
\* is_valid_tripitaka_content: len(content_to_check) < 2000
ShortContentChars == 2000
\* is_valid_tripitaka_content: len(total_content) > 2000
LongContentChars == 2000
\* get_sutta_urls: end = min(max_sutta + 1000, 100000)
EndBuffer == 1000
EndCeiling == 100000

(***************************************************************************)
(* config/nikaya_config.py                                                 *)
(***************************************************************************)
\* the table with majjhima starting one identifier early
NIKAYA_RANGES_Overlapping ==
    << [key |-> "digha",     start |-> 17,   end |-> 264],
       [key |-> "majjhima",  start |-> 264,  end |-> 979],
       [key |-> "samyutta",  start |-> 980,  end |-> 1172],
       [key |-> "khuddaka",  start |-> 1173, end |-> 5756],
       [key |-> "anguttara", start |-> 5757, end |-> 15702] >>

\* NIKAYA_RANGES, in dict (insertion) order
NIKAYA_RANGES ==
    << [key |-> "digha",     start |-> 17,   end |-> 264],
       [key |-> "majjhima",  start |-> 265,  end |-> 979],
       [key |-> "samyutta",  start |-> 980,  end |-> 1172],
       [key |-> "khuddaka",  start |-> 1173, end |-> 5756],
       [key |-> "anguttara", start |-> 5757, end |-> 15702] >>

\* Python's None as a value of the lookup
NoneInfo == [key |-> "None", start |-> 0, end |-> 0]

\* the test with the upper end excluded
InNikayaEndExcluded(info, sutta_number) ==
    info.start <= sutta_number /\ sutta_number < info.end

\* the test of the loop body: nikaya_info["start"] <= sutta_number <= nikaya_info["end"]
InNikaya(info, sutta_number) ==
    info.start <= sutta_number /\ sutta_number <= info.end

RECURSIVE NikayaScan(_, _)
\* for nikaya_key, nikaya_info in NIKAYA_RANGES.items(): first match returns
NikayaScan(k, sutta_number) ==
    IF k > Len(NIKAYA_RANGES) THEN NoneInfo
    ELSE IF InNikaya(NIKAYA_RANGES[k], sutta_number) THEN NIKAYA_RANGES[k]
    ELSE NikayaScan(k + 1, sutta_number)

get_nikaya_info(sutta_number) == NikayaScan(1, sutta_number)

(***************************************************************************)
(* JSON text of an integer: json.dump writes decimal digits, json.load     *)
(* parses them back.                                                       *)
(***************************************************************************)
Digit(d) == <<"0", "1", "2", "3", "4", "5", "6", "7", "8", "9">>[d + 1]

DigitValue(c) == CHOOSE d \in 0..9 : Digit(d) = c

RECURSIVE json_dump_int(_)
json_dump_int(n) ==
    IF n < 10 THEN <<Digit(n)>>
    ELSE Append(json_dump_int(n \div 10), Digit(n % 10))

RECURSIVE json_load_int(_)
json_load_int(s) ==
    IF Len(s) = 1 THEN DigitValue(s[1])
    ELSE 10 * json_load_int(SubSeq(s, 1, Len(s) - 1)) + DigitValue(s[Len(s)])

(***************************************************************************)
(* State                                                                   *)
(***************************************************************************)
VARIABLES
    \* --- the process and the call made by main.py
    proc,            \* 1: the first run of main.py on the directory, 2: the run after it
    entry,           \* "bulk" | "nikaya_raw" | "nikaya_strict": the mode of main.py
    start, end,      \* the range handed to scrape_bulk
    pc,              \* "constructed" | "ready" | "batch" | "summary" | "done"
                     \* | "draining" | "interrupted"
    \* --- BulkTripitakaScraper fields
    skip_invalid,
    scraped_count,
    error_count,
    \* --- files of the output directory
    progress_file,   \* <<>> (no file) or <<[scraped_count, error_count]>> as JSON text
    error_log_file,  \* the list in error_log.json (<<>>: no file)
    batch_files,     \* batch index -> list of records in suttas_batch_%04d.json
    \* --- locals of scrape_bulk and its worker pool
    batches,         \* the chunks of urls
    batch_idx,       \* 1-based index of the batch in progress (batch_idx + 1 of the code)
    pendingQ,        \* submitted to the executor, not started yet
    running,         \* identifiers whose scrape_single_sutta is executing
    completedQ,      \* finished futures in completion order, not yet yielded
    batch_data,
    \* --- history (not read by the program)
    attempts,        \* identifier -> number of scrape_single_sutta calls in this run
    outcome,         \* identifier -> "none" | "kept" | "dropped" | "failed"
    strategies,      \* identifier -> fetch strategies invoked for it, in order
    fetched,         \* identifier -> "none" or the page scrape_page returned for it
    runStart,        \* counters and error-log length when scrape_bulk was entered
    written,         \* batch indexes whose file this scrape_bulk call wrote
    lastSaved,       \* the in-memory counters at the last save_progress
    \* --- persistent_webdriver.py: the process-wide PersistentWebDriver
    f_driver,        \* _driver: 0 (None) or the number of the live session object
    f_alive,         \* whether the browser behind _driver still answers
    f_sessions,      \* sessions created so far
    \* --- threads inside scrape_tripitaka_page_with_retry
    f_calls,         \* calls started so far
    f_probed,        \* history: the session held was created, or answered a probe,
                     \* after the last navigation on it
    fw,              \* thread -> [pc, attempt, driver, rendered, result, served, navFails,
                     \*            failedOn: the sessions a navigation of this call raised on,
                     \*            noDriver: get_persistent_driver returned None in this call]
    \* --- a call of get_nikaya_info
    lk_pc,           \* "call" | "done"
    lk_in,           \* sutta_number
    lk_out,          \* the value returned
    \* --- a call of is_valid_tripitaka_content
    v_pc,            \* "call" | "done"
    v_sinhala,       \* sinhala_text
    v_pali,          \* pali_text
    v_title,         \* title
    v_out,           \* the return statement reached
    \* --- the threads of one batch, statement by statement
    lock,            \* self.lock: 0 (free) or the thread that acquired it
    th,              \* thread -> [pc, tmp, errors, route]: position, locals, and
                     \* the way scrape_single_sutta went (history)
    unlocked,        \* history: mutations made by a thread not holding self.lock
    \* --- locals of scrape_all_nikayas
    nikaya_order,    \* the keys to go through
    all_idx,         \* iterations of the for loop begun so far
    overall_scraped,
    overall_errors,
    all_log,         \* history: per iteration [key, scraped, errors, how], the counters
                     \* when the iteration ended ("completed" | "raised")
    \* --- a call of get_sutta_urls
    e_pc,            \* "call" | "done"
    e_start,         \* start
    e_end,           \* end: [given |-> FALSE] is None
    e_urls,          \* the list returned
    \* --- the test mode of main.py
    t_idx,           \* iterations of the loop over test_ranges begun so far
    t_log,           \* history: per scrape_bulk call ended, the batch files it wrote
    \* --- the counter updates of scrape_single_sutta, one item after the other
    c_left,          \* items of the range not yet through scrape_single_sutta
    c_since,         \* history: items that ended since the last save_progress
    c_kept_since,    \* history: items that were kept since the last save_progress
    \* --- robust_webdriver.py: a RobustWebDriver inside create_driver
    r_pc,            \* "parked" | "loop" | "returned" | "raised"
    r_max,           \* max_retries
    r_attempt,       \* attempt, the loop variable
    r_tries,         \* history: creation attempts begun
    r_driver,        \* self.driver is not None
    r_service,       \* self.service is not None
    \* --- the as_completed generator of the current batch
    ac_finished,     \* -1 before its first step; then the futures of the set `finished`
                     \* (those done at its first step) that it has still to yield
    \* scrape_nikaya called on an orchestrator (bulk_scraper.py lines 259-292)
    output_dir,      \* self.output_dir, a path as the sequence of its parts
    file_paths,      \* self.progress_file and self.error_log_file, set by __init__
    original_output_dir, \* the local of scrape_nikaya, <<>> outside a call
    n_called,        \* the keys scrape_nikaya has been called with
    n_last,          \* how the last call of scrape_nikaya ended
    \* the PersistentWebDriver called from one thread (persistent_webdriver.py)
    m_driver,        \* self._driver: the number of the session held, 0 for None
    m_alive,         \* the session held answers
    m_created,       \* sessions created so far, numbered 1, 2, ...
    m_calls,         \* calls of the manager's methods made so far
    m_last,          \* the method called last
    m_log            \* what was done to sessions, in the order it was done

orchVars == <<proc, entry, start, end, pc, skip_invalid, scraped_count, error_count,
              progress_file, error_log_file, batch_files, batches, batch_idx,
              pendingQ, running, completedQ, batch_data,
              attempts, outcome, strategies, fetched, runStart, written, lastSaved>>

fetchVars == <<f_driver, f_alive, f_sessions, f_calls, f_probed, fw>>

\* the variables the orchestrator's steps leave alone, and those the fetch
\* chain's steps leave alone
lookupVars == <<lk_pc, lk_in, lk_out>>

validVars == <<v_pc, v_sinhala, v_pali, v_title, v_out>>

lockVars == <<lock, th, unlocked>>

allVars == <<nikaya_order, all_idx, overall_scraped, overall_errors, all_log>>

enumVars == <<e_pc, e_start, e_end, e_urls>>

testVars == <<t_idx, t_log>>

cadVars == <<c_left, c_since, c_kept_since>>

robustVars == <<r_pc, r_max, r_attempt, r_tries, r_driver, r_service>>

acVars == <<ac_finished>>

nikVars == <<output_dir, file_paths, original_output_dir, n_called, n_last>>

mgrVars == <<m_driver, m_alive, m_created, m_calls, m_last, m_log>>

nonOrchVars == <<fetchVars, lookupVars, validVars, lockVars, allVars, enumVars, testVars, cadVars, robustVars, acVars, nikVars, mgrVars>>

\* the variables of the other parts, the generator aside
orchRest == <<fetchVars, lookupVars, validVars, lockVars, allVars, enumVars, testVars,
              cadVars, robustVars, nikVars, mgrVars>>

nonFetchVars == <<orchVars, lookupVars, validVars, lockVars, allVars, enumVars, testVars, cadVars, robustVars, acVars, nikVars, mgrVars>>

nonLookupVars == <<orchVars, fetchVars, validVars, lockVars, allVars, enumVars, testVars, cadVars, robustVars, acVars, nikVars, mgrVars>>

nonValidVars == <<orchVars, fetchVars, lookupVars, lockVars, allVars, enumVars, testVars, cadVars, robustVars, acVars, nikVars, mgrVars>>

vars == <<orchVars, fetchVars, lookupVars, validVars, lockVars, allVars, enumVars, testVars, cadVars, robustVars, acVars, nikVars, mgrVars>>

(***************************************************************************)
(* scraper/simple_requests_scraper.py: what scrape_page can return         *)
(***************************************************************************)
\* the success return (lines 79-89) and the two error returns (lines 91-112)
Pages ==
    { [sinhala |-> "text", pali |-> "",     is_valid_content |-> TRUE,  error |-> FALSE],
      [sinhala |-> "text", pali |-> "text", is_valid_content |-> FALSE, error |-> FALSE],
      [sinhala |-> "",     pali |-> "",     is_valid_content |-> FALSE, error |-> FALSE],
      [sinhala |-> "",     pali |-> "",     is_valid_content |-> FALSE, error |-> TRUE] }

(***************************************************************************)
(* scraper/bulk_scraper.py                                                 *)
(***************************************************************************)
Ids == start..end

RECURSIVE get_sutta_urlsOpenEnd(_, _)
\* the enumeration stopping one identifier early: range(start, end, step)
get_sutta_urlsOpenEnd(s, e) ==
    IF s >= e THEN <<>> ELSE <<s>> \o get_sutta_urlsOpenEnd(s + 1, e)

RECURSIVE get_sutta_urls(_, _)
\* for i in range(start, end + 1, step): urls.append(...)
get_sutta_urls(s, e) ==
    IF s > e THEN <<>> ELSE <<s>> \o get_sutta_urls(s + 1, e)

RECURSIVE BatchesDropTail(_, _)
\* the chunking that only keeps full chunks
BatchesDropTail(urls, size) ==
    IF Len(urls) < size THEN <<>>
    ELSE <<SubSeq(urls, 1, size)>> \o BatchesDropTail(SubSeq(urls, size + 1, Len(urls)), size)

RECURSIVE BatchesOverlap(_, _)
\* a slice one element too long: urls[i:i + batch_size + 1]
BatchesOverlap(urls, size) ==
    IF urls = <<>> THEN <<>>
    ELSE IF Len(urls) <= size THEN <<urls>>
    ELSE <<SubSeq(urls, 1, size + 1)>> \o BatchesOverlap(SubSeq(urls, size + 1, Len(urls)), size)

RECURSIVE Batches(_, _)
\* [urls[i:i + batch_size] for i in range(0, len(urls), batch_size)]
Batches(urls, size) ==
    IF urls = <<>> THEN <<>>
    ELSE IF Len(urls) <= size THEN <<urls>>
    ELSE <<SubSeq(urls, 1, size)>> \o Batches(SubSeq(urls, size + 1, Len(urls)), size)

\* the routing with a rejected page raised as an error
ScrapeRouteRejectRaises(page, skip) ==
    IF page.sinhala = "" /\ page.pali = "" THEN "failed"
    ELSE IF ~page.is_valid_content THEN "failed"
    ELSE "kept"

\* an empty page returned as None without raising: never counted, never logged
ScrapeRouteLoseEmpty(page, skip) ==
    IF page.sinhala = "" /\ page.pali = "" THEN "dropped"
    ELSE IF skip /\ ~page.is_valid_content THEN "dropped"
    ELSE "kept"

\* the routing that keeps the record of a failed request in permissive mode
ScrapeRouteKeepsErrorRecord(page, skip) ==
    IF page.sinhala = "" /\ page.pali = "" THEN (IF skip THEN "failed" ELSE "kept")
    ELSE IF skip /\ ~page.is_valid_content THEN "dropped"
    ELSE "kept"

\* scrape_single_sutta, lines 114-129: the route of a fetched page
ScrapeRoute(page, skip) ==
    IF page.sinhala = "" /\ page.pali = "" THEN "failed"
    ELSE IF skip /\ ~page.is_valid_content THEN "dropped"
    ELSE "kept"

\* get_sutta_urls, line 89: f"https://tripitaka.online/sutta/{i}", as the
\* pieces between its slashes
UrlOf(i) == <<"https:", "", "tripitaka.online", "sutta", json_dump_int(i)>>

\* the number read from the last character of the url only
SuttaNumLastChar(url) == DigitValue(url[Len(url)][Len(url[Len(url)])])

\* lines 105 and 132: int(url.split('/')[-1])
SuttaNum(url) == json_load_int(url[Len(url)])

\* lines 135-136: len(text.split()) if text else 0, the texts of Pages being
\* "" or one word
WordCount(text) == IF text = "" THEN 0 ELSE 1

\* scrape_single_sutta, lines 131-141: the record returned for the url of
\* identifier i
Enrich(page, i) ==
    [sutta_number |-> SuttaNum(UrlOf(i)),
     is_valid_content |-> page.is_valid_content,
     word_counts |-> [sinhala |-> WordCount(page.sinhala),
                      pali |-> WordCount(page.pali)],
     nikaya |-> get_nikaya_info(SuttaNum(UrlOf(i))).key]

\* the error string of the ValueError raised at line 122
ErrorInfo(i) == [url |-> i, error |-> "No Sinhala or Pali content found"]

\* self.scraped_count += 1
IncScraped(n) == n + 1

\* what is left of a file when the json.dump writing it did not finish
TruncatedFile == << [truncated |-> TRUE] >>

\* json.load reads the file back
ValidJson(file) == file # TruncatedFile

\* log_error keeping only the newest entry
log_errorOverwrite(file, error_info) == << error_info >>

\* log_error putting the new entry in front of the list
log_errorPrepend(file, error_info) == << error_info >> \o file

\* log_error, lines 172-184 with the write succeeding: load the list (or start
\* one), append, rewrite; json.load of a file that does not parse raises into
\* the except of lines 183-184 and the file stays as it is
log_error(file, error_info) ==
    IF ValidJson(file) THEN Append(file, error_info) ELSE file

\* log_error, lines 181-184 when the write raises: open(..., 'w') failed and the
\* file is as before, or json.dump failed after open had emptied the file; the
\* exception is printed and swallowed
log_errorWriteFails(file) == {file, TruncatedFile}

\* save_progress writing the count one record ahead of the counter
save_progressAhead(sc, ec) ==
    << [scraped_count |-> json_dump_int(sc + 1), error_count |-> json_dump_int(ec)] >>

\* save_progress: the JSON written to scraping_progress.json
\* (the write succeeds: the except branch of lines 198-199 is not followed)
save_progress(sc, ec) ==
    << [scraped_count |-> json_dump_int(sc), error_count |-> json_dump_int(ec)] >>

\* resume_from_progress with the two keys mixed up
RestoredCountersSwapped(progress) ==
    << json_load_int(progress.error_count), json_load_int(progress.scraped_count) >>

\* resume_from_progress, lines 352-354: progress.get('scraped_count', 0), ...
RestoredCounters(progress) ==
    << json_load_int(progress.scraped_count), json_load_int(progress.error_count) >>

(***************************************************************************)
(* Initial state: BulkTripitakaScraper.__init__ as main.py calls it, on an *)
(* output directory that is fresh or holds the files of an earlier run     *)
(* over identifiers 1..10 (nine scraped, identifier 10 failed).            *)
(***************************************************************************)
Entries == {"bulk", "nikaya_raw", "nikaya_strict"}

\* a window of identifiers across the lower edge of digha (16 is in no collection)
RunRanges == { <<16, 16 + RunLen - 1>> }

PriorIds == 1..9

PriorBatch ==
    [k \in PriorIds |->
        [sutta_number |-> k, is_valid_content |-> TRUE,
         word_counts |-> [sinhala |-> 1, pali |-> 0], nikaya |-> "None"]]

NoFiles == [progress |-> <<>>, errors |-> <<>>, batches |-> <<>>, saved |-> <<0, 0>>]

PriorFiles ==
    [progress |-> save_progress(9, 1),
     errors |-> <<[url |-> 10, error |-> "No Sinhala or Pali content found"]>>,
     batches |-> <<PriorBatch>>,
     saved |-> <<9, 1>>]

NoHistory(ids) == [i \in ids |-> "none"]

\* no call of get_nikaya_info is followed
LookupParked ==
    /\ lk_pc = "parked"
    /\ lk_in = 0
    /\ lk_out = NoneInfo

\* no call of is_valid_tripitaka_content is followed
ValidParked ==
    /\ v_pc = "parked"
    /\ v_sinhala = [lead |-> 0, chunks |-> <<>>, trail |-> 0]
    /\ v_pali = [lead |-> 0, chunks |-> <<>>, trail |-> 0]
    /\ v_title = [core |-> "", padded |-> FALSE]
    /\ v_out = "none"

\* no call of get_sutta_urls is followed on its own
EnumParked ==
    /\ e_pc = "parked"
    /\ e_start = 0
    /\ e_end = [given |-> TRUE, value |-> 0]
    /\ e_urls = <<>>

\* main.py is not in test mode
TestParked ==
    /\ t_idx = 0
    /\ t_log = <<>>

\* the counter updates are not followed on their own
CadParked ==
    /\ c_left = 0
    /\ c_since = 0
    /\ c_kept_since = 0

\* no RobustWebDriver exists
RobustParked ==
    /\ r_pc = "parked"
    /\ r_max = 0
    /\ r_attempt = 0
    /\ r_tries = 0
    /\ r_driver = FALSE
    /\ r_service = FALSE

\* no as_completed generator has been stepped
AsCompletedParked == ac_finished = -1

\* the output_dir argument of the constructor
BaseDir == <<"output">>

\* os.path.join(directory, name)
PathJoin(directory, name) == Append(directory, name)

\* __init__, lines 41-44: the two paths are made from output_dir once
PathsOf(directory) ==
    [progress_file |-> PathJoin(directory, "scraping_progress.json"),
     error_log_file |-> PathJoin(directory, "error_log.json")]

\* the statements of scrape_nikaya around its call of scrape_bulk are not
\* followed one by one
NikayaParked ==
    /\ output_dir = BaseDir
    /\ file_paths = PathsOf(BaseDir)
    /\ original_output_dir = <<>>
    /\ n_called = {}
    /\ n_last = "none"

\* the methods of the manager are not followed call by call
ManagerParked ==
    /\ m_driver = 0
    /\ m_alive = FALSE
    /\ m_created = 0
    /\ m_calls = 0
    /\ m_last = "none"
    /\ m_log = <<>>

\* scrape_all_nikayas is not running
AllParked ==
    /\ nikaya_order = <<>>
    /\ all_idx = 0
    /\ overall_scraped = 0
    /\ overall_errors = 0
    /\ all_log = <<>>

\* no thread is followed statement by statement
LockParked ==
    /\ lock = 0
    /\ th = <<>>
    /\ unlocked = {}

\* the fetch chain is not running
FetchParked ==
    /\ f_driver = 0
    /\ f_alive = FALSE
    /\ f_sessions = 0
    /\ f_calls = 0
    /\ f_probed = FALSE
    /\ fw = <<>>

Init ==
    /\ LockParked
    /\ AllParked
    /\ ManagerParked
    /\ NikayaParked
    /\ AsCompletedParked
    /\ RobustParked
    /\ CadParked
    /\ TestParked
    /\ EnumParked
    /\ FetchParked
    /\ LookupParked
    /\ ValidParked
    /\ proc = 1
    /\ entry \in Entries
    /\ \E r \in RunRanges : start = r[1] /\ end = r[2]
    /\ pc = IF entry = "bulk" THEN "constructed" ELSE "ready"
    /\ skip_invalid = (entry = "nikaya_strict")
    /\ scraped_count = 0
    /\ error_count = 0
    /\ \E f \in {NoFiles, PriorFiles} :
          /\ progress_file = f.progress
          /\ error_log_file = f.errors
          /\ batch_files = f.batches
          /\ lastSaved = f.saved
    /\ batches = <<>>
    /\ batch_idx = 0
    /\ pendingQ = <<>>
    /\ running = {}
    /\ completedQ = <<>>
    /\ batch_data = <<>>
    /\ attempts = [i \in Ids |-> 0]
    /\ outcome = NoHistory(Ids)
    /\ strategies = [i \in Ids |-> <<>>]
    /\ fetched = NoHistory(Ids)
    /\ runStart = [scraped |-> 0, errors |-> 0, logLen |-> 0]
    /\ written = {}

(***************************************************************************)
(* resume_from_progress, called by main.scrape_bulk before scrape_bulk     *)
(***************************************************************************)
Resume ==
    /\ pc = "constructed"
    /\ entry = "bulk"
    /\ IF progress_file # <<>>
       THEN /\ scraped_count' = RestoredCounters(progress_file[1])[1]
            /\ error_count' = RestoredCounters(progress_file[1])[2]
       ELSE UNCHANGED <<scraped_count, error_count>>
    /\ pc' = "ready"
    /\ UNCHANGED nonOrchVars
    /\ UNCHANGED <<fetched, proc, entry, start, end, skip_invalid, progress_file, error_log_file,
                   batch_files, batches, batch_idx, pendingQ, running, completedQ,
                   batch_data, attempts, outcome, strategies, runStart, written,
                   lastSaved>>

(***************************************************************************)
(* scrape_bulk, lines 210-230: enumerate, chunk, submit the first batch    *)
(***************************************************************************)
StartBulk ==
    /\ pc = "ready"
    /\ LET bs == Batches(get_sutta_urls(start, end), BatchSize) IN
          /\ batches' = bs
          /\ IF bs = <<>>
             THEN /\ pc' = "summary"
                  /\ batch_idx' = 0
                  /\ pendingQ' = <<>>
             ELSE /\ pc' = "batch"
                  /\ batch_idx' = 1
                  /\ pendingQ' = bs[1]
    /\ batch_data' = <<>>
    /\ running' = {}
    /\ completedQ' = <<>>
    /\ attempts' = [i \in Ids |-> 0]
    /\ outcome' = NoHistory(Ids)
    /\ strategies' = [i \in Ids |-> <<>>]
    /\ fetched' = NoHistory(Ids)
    /\ runStart' = [scraped |-> scraped_count, errors |-> error_count,
                    logLen |-> Len(error_log_file)]
    /\ written' = {}
    /\ ac_finished' = -1
    /\ UNCHANGED orchRest
    /\ UNCHANGED <<proc, entry, start, end, skip_invalid, scraped_count, error_count,
                   progress_file, error_log_file, batch_files, lastSaved>>

\* the executor of lines 228-230 exists and its threads take work: while the
\* main thread is in the with block ("batch"), and while __exit__ waits for
\* the threads after a KeyboardInterrupt ("draining")
PoolOpen == pc \in {"batch", "draining"}

(***************************************************************************)
(* A pool thread takes the next submitted url and enters                   *)
(* scrape_single_sutta: sleep, then scrape_tripitaka_page_simple(url)      *)
(***************************************************************************)
WorkerStart ==
    /\ PoolOpen
    /\ pendingQ # <<>>
    /\ Cardinality(running) < MaxWorkers
    /\ LET i == Head(pendingQ) IN
          /\ running' = running \cup {i}
          /\ attempts' = [attempts EXCEPT ![i] = @ + 1]
          /\ strategies' = [strategies EXCEPT ![i] = Append(@, "static")]
    /\ pendingQ' = Tail(pendingQ)
    /\ UNCHANGED nonOrchVars
    /\ UNCHANGED <<fetched, proc, entry, start, end, pc, skip_invalid, scraped_count, error_count,
                   progress_file, error_log_file, batch_files, batches, batch_idx,
                   completedQ, batch_data, outcome, runStart, written, lastSaved>>

(***************************************************************************)
(* scrape_single_sutta returns the enriched record: lines 131-152          *)
(***************************************************************************)
WorkerKept ==
    /\ PoolOpen
    /\ \E i \in running, page \in Pages :
          /\ ScrapeRoute(page, skip_invalid) = "kept"
          /\ running' = running \ {i}
          /\ scraped_count' = IncScraped(scraped_count)
          /\ IF scraped_count' % CheckpointEvery = 0
             THEN /\ progress_file' = save_progress(scraped_count', error_count)
                  /\ lastSaved' = <<scraped_count', error_count>>
             ELSE UNCHANGED <<progress_file, lastSaved>>
          /\ completedQ' = Append(completedQ, <<Enrich(page, i)>>)
          /\ outcome' = [outcome EXCEPT ![i] = "kept"]
          /\ fetched' = [fetched EXCEPT ![i] = page]
    /\ UNCHANGED nonOrchVars
    /\ UNCHANGED <<proc, entry, start, end, pc, skip_invalid, error_count,
                   error_log_file, batch_files, batches, batch_idx, pendingQ,
                   batch_data, attempts, strategies, runStart, written>>

(***************************************************************************)
(* scrape_single_sutta skips an invalid page: lines 127-129                *)
(***************************************************************************)
WorkerDropped ==
    /\ PoolOpen
    /\ \E i \in running, page \in Pages :
          /\ ScrapeRoute(page, skip_invalid) = "dropped"
          /\ running' = running \ {i}
          /\ completedQ' = Append(completedQ, <<>>)
          /\ outcome' = [outcome EXCEPT ![i] = "dropped"]
          /\ fetched' = [fetched EXCEPT ![i] = page]
    /\ UNCHANGED nonOrchVars
    /\ UNCHANGED <<proc, entry, start, end, pc, skip_invalid, scraped_count, error_count,
                   progress_file, error_log_file, batch_files, batches, batch_idx,
                   pendingQ, batch_data, attempts, strategies, runStart, written,
                   lastSaved>>

(***************************************************************************)
(* scrape_single_sutta catches the exception: lines 154-168                *)
(***************************************************************************)
WorkerFailed ==
    /\ PoolOpen
    /\ \E i \in running, page \in Pages :
          /\ ScrapeRoute(page, skip_invalid) = "failed"
          /\ running' = running \ {i}
          /\ error_count' = error_count + 1
          /\ error_log_file' = log_error(error_log_file, ErrorInfo(i))
          /\ completedQ' = Append(completedQ, <<>>)
          /\ outcome' = [outcome EXCEPT ![i] = "failed"]
          /\ fetched' = [fetched EXCEPT ![i] = page]
    /\ UNCHANGED nonOrchVars
    /\ UNCHANGED <<proc, entry, start, end, pc, skip_invalid, scraped_count,
                   progress_file, batch_files, batches, batch_idx, pendingQ,
                   batch_data, attempts, strategies, runStart, written, lastSaved>>

(***************************************************************************)
(* as_completed yields the next finished future: lines 232-239             *)
(***************************************************************************)
\* the places of the queue of done futures as_completed may yield from: at its
\* first step the futures already done form the set `finished`, yielded in the
\* order of the set; the others are yielded in the order they complete
Yieldable(q, finished) ==
    IF finished = -1 THEN 1..Len(q)
    ELSE IF finished > 0 THEN 1..finished
    ELSE {1}

\* the future at place i and the one behind it leave the queue
RemoveAtDropsTwo(q, i) == SubSeq(q, 1, i - 1) \o SubSeq(q, i + 2, Len(q))

\* the future at place i leaves the queue
RemoveAt(q, i) == SubSeq(q, 1, i - 1) \o SubSeq(q, i + 1, Len(q))

Collect ==
    /\ pc = "batch"
    /\ completedQ # <<>>
    /\ \E i \in Yieldable(completedQ, ac_finished) :
          /\ batch_data' = batch_data \o completedQ[i]
          /\ completedQ' = RemoveAt(completedQ, i)
    /\ ac_finished' = (IF ac_finished = -1 THEN Len(completedQ) - 1
                       ELSE IF ac_finished > 0 THEN ac_finished - 1
                       ELSE 0)
    /\ UNCHANGED orchRest
    /\ UNCHANGED <<fetched, proc, entry, start, end, pc, skip_invalid, scraped_count, error_count,
                   progress_file, error_log_file, batch_files, batches, batch_idx,
                   pendingQ, running, attempts, outcome, strategies, runStart,
                   written, lastSaved>>

\* the batch saved and the next one submitted as soon as every url of the
\* batch was handed to a thread, without waiting for the threads
FlushBatchEarly ==
    /\ pc = "batch"
    /\ pendingQ = <<>>
    /\ IF batch_data # <<>>
       THEN /\ batch_files' = (batch_idx :> batch_data) @@ batch_files
            /\ written' = written \cup {batch_idx}
       ELSE UNCHANGED <<batch_files, written>>
    /\ IF batch_idx < Len(batches)
       THEN /\ batch_idx' = batch_idx + 1
            /\ pendingQ' = batches[batch_idx + 1]
            /\ pc' = "batch"
       ELSE /\ pc' = "summary"
            /\ UNCHANGED <<batch_idx, pendingQ>>
    /\ batch_data' = <<>>
    /\ ac_finished' = -1
    /\ UNCHANGED orchRest
    /\ UNCHANGED <<fetched, proc, entry, start, end, skip_invalid, scraped_count,
                   error_count, progress_file, error_log_file, batches, running,
                   completedQ, attempts, outcome, strategies, runStart, lastSaved>>

(***************************************************************************)
(* The pool has drained: save the batch (lines 241-245) and go on to the   *)
(* next iteration of the loop over batches                                 *)
(***************************************************************************)
FlushBatch ==
    /\ pc = "batch"
    /\ pendingQ = <<>>
    /\ running = {}
    /\ completedQ = <<>>
    /\ IF batch_data # <<>>
       THEN /\ batch_files' = (batch_idx :> batch_data) @@ batch_files
            /\ written' = written \cup {batch_idx}
       ELSE UNCHANGED <<batch_files, written>>
    /\ IF batch_idx < Len(batches)
       THEN /\ batch_idx' = batch_idx + 1
            /\ pendingQ' = batches[batch_idx + 1]
            /\ pc' = "batch"
       ELSE /\ pc' = "summary"
            /\ UNCHANGED <<batch_idx, pendingQ>>
    /\ batch_data' = <<>>
    /\ ac_finished' = -1
    /\ UNCHANGED orchRest
    /\ UNCHANGED <<fetched, proc, entry, start, end, skip_invalid, scraped_count, error_count,
                   progress_file, error_log_file, batches, running, completedQ,
                   attempts, outcome, strategies, runStart, lastSaved>>

(***************************************************************************)
(* scrape_bulk, lines 247-257: the summary and the final save_progress     *)
(***************************************************************************)
FinishBulk ==
    /\ pc = "summary"
    /\ progress_file' = save_progress(scraped_count, error_count)
    /\ lastSaved' = <<scraped_count, error_count>>
    /\ pc' = "done"
    /\ UNCHANGED nonOrchVars
    /\ UNCHANGED <<fetched, proc, entry, start, end, skip_invalid, scraped_count, error_count,
                   error_log_file, batch_files, batches, batch_idx, pendingQ, running,
                   completedQ, batch_data, attempts, outcome, strategies, runStart,
                   written>>

(***************************************************************************)
(* The process ends and main.py is run again with the same arguments: a    *)
(* new BulkTripitakaScraper on the same output directory                   *)
(***************************************************************************)
Restart ==
    /\ pc = "done"
    /\ proc = 1
    /\ proc' = proc + 1
    /\ pc' = IF entry = "bulk" THEN "constructed" ELSE "ready"
    /\ scraped_count' = 0
    /\ error_count' = 0
    /\ batches' = <<>>
    /\ batch_idx' = 0
    /\ attempts' = [i \in Ids |-> 0]
    /\ outcome' = NoHistory(Ids)
    /\ strategies' = [i \in Ids |-> <<>>]
    /\ fetched' = NoHistory(Ids)
    /\ runStart' = [scraped |-> 0, errors |-> 0, logLen |-> 0]
    /\ written' = {}
    /\ UNCHANGED nonOrchVars
    /\ UNCHANGED <<entry, start, end, skip_invalid, progress_file, error_log_file,
                   batch_files, pendingQ, running, completedQ, batch_data, lastSaved>>


(***************************************************************************)
(* scraper/tripitaka_scraper.py and scraper/persistent_webdriver.py: the   *)
(* fetch chain scrape_tripitaka_page_with_retry                            *)
(***************************************************************************)
Fetchers == 1..NumFetchers

NoResult == [content_quality |-> "none", is_valid_content |-> FALSE, error |-> FALSE]

\* scrape_tripitaka_page, lines 250-259: the record of a rendered page
RenderedRecord(valid) ==
    [content_quality |-> IF valid THEN "valid" ELSE "invalid",
     is_valid_content |-> valid, error |-> FALSE]

\* scrape_tripitaka_page_fallback, lines 300-310
FallbackRecord ==
    [content_quality |-> "fallback_scrape", is_valid_content |-> FALSE, error |-> FALSE]

\* scrape_tripitaka_page_fallback, lines 314-324
FallbackErrorRecord ==
    [content_quality |-> "error", is_valid_content |-> FALSE, error |-> TRUE]

\* the strategy a returned record is marked with: content_quality is "valid" or
\* "invalid" only on the rendered path, "fallback_scrape" or "error" only on
\* the static path
FetchMethod(result) ==
    IF result.content_quality \in {"fallback_scrape", "error"} THEN "static"
    ELSE IF result.content_quality \in {"valid", "invalid"} THEN "rendered"
    ELSE "none"

\* scrape_tripitaka_page_with_retry without its try/except
AfterRenderedNoCatch(how) ==
    IF how = "ok" THEN "returned"
    ELSE IF how = "error" THEN "fallback"
    ELSE "raised"

\* scrape_tripitaka_page_with_retry, lines 331-340: where control goes when
\* scrape_tripitaka_page returned a record ("ok"), returned its error dict
\* ("error") or raised ("raised")
AfterRendered(how) ==
    IF how = "ok" THEN "returned" ELSE "fallback"

FetchIdle ==
    [pc |-> "idle", attempt |-> 0, driver |-> 0, rendered |-> "none",
     result |-> NoResult, served |-> "none", navFails |-> 0, failedOn |-> {},
     noDriver |-> FALSE]

\* scrape_tripitaka_page ends: how it ended decides what with_retry does next
Ended(f, w, how, rec) ==
    [f EXCEPT ![w].pc = AfterRendered(how),
              ![w].rendered = how,
              ![w].result = IF how = "ok" THEN rec ELSE NoResult,
              ![w].served = IF how = "ok" THEN "rendered" ELSE "none"]

EndRendered(w, how, rec) == fw' = Ended(fw, w, how, rec)

\* a thread calls scrape_tripitaka_page_with_retry(url)
FetchBegin(w) ==
    /\ fw[w].pc \in {"idle", "returned"}
    /\ f_calls < MaxFetches
    /\ f_calls' = f_calls + 1
    /\ fw' = [fw EXCEPT ![w] = [FetchIdle EXCEPT !.pc = "acquire"]]
    /\ UNCHANGED <<f_driver, f_alive, f_sessions>>
    /\ UNCHANGED f_probed
    /\ UNCHANGED nonFetchVars

\* scrape_tripitaka_page, line 109: get_persistent_driver() with a driver held
AcquireHeld(w) ==
    /\ fw[w].pc = "acquire"
    /\ f_driver # 0
    /\ fw' = [fw EXCEPT ![w].pc = "nav", ![w].driver = f_driver, ![w].attempt = 0]
    /\ UNCHANGED <<f_driver, f_alive, f_sessions, f_calls>>
    /\ UNCHANGED f_probed
    /\ UNCHANGED nonFetchVars

\* get_driver: _driver is None and _setup_driver creates a session
AcquireSetupOk(w) ==
    /\ fw[w].pc = "acquire"
    /\ f_driver = 0
    /\ f_sessions < MaxSessions
    /\ f_sessions' = f_sessions + 1
    /\ f_driver' = f_sessions + 1
    /\ f_alive' = TRUE
    /\ fw' = [fw EXCEPT ![w].pc = "nav", ![w].driver = f_sessions + 1, ![w].attempt = 0]
    /\ UNCHANGED f_calls
    /\ f_probed' = TRUE
    /\ UNCHANGED nonFetchVars

\* get_driver: _driver is None and _setup_driver fails; line 112 raises
AcquireSetupFail(w) ==
    /\ fw[w].pc = "acquire"
    /\ f_driver = 0
    /\ fw' = Ended([fw EXCEPT ![w].noDriver = TRUE], w, "raised", NoResult)
    /\ UNCHANGED <<f_driver, f_alive, f_sessions, f_calls>>
    /\ UNCHANGED f_probed
    /\ UNCHANGED nonFetchVars

\* line 121: driver.get(url) succeeds (lines 122-126: settle and break)
NavOk(w) ==
    /\ fw[w].pc = "nav"
    /\ fw[w].driver = f_driver
    /\ f_alive
    /\ fw' = [fw EXCEPT ![w].pc = "parse"]
    /\ UNCHANGED <<f_driver, f_alive, f_sessions, f_calls>>
    /\ f_probed' = (IF fw[w].driver = f_driver THEN FALSE ELSE f_probed)
    /\ UNCHANGED nonFetchVars

\* lines 127-137: driver.get(url) raises; the last attempt goes on to the restart
NavFail(w) ==
    /\ fw[w].pc = "nav"
    /\ fw' = [fw EXCEPT ![w].navFails = @ + 1,
                        ![w].failedOn = @ \cup {fw[w].driver},
                        ![w].attempt = IF @ = max_page_retries - 1 THEN @ ELSE @ + 1,
                        ![w].pc = IF fw[w].attempt = max_page_retries - 1
                                  THEN "restart" ELSE "nav"]
    /\ UNCHANGED <<f_driver, f_alive, f_sessions, f_calls>>
    /\ f_probed' = (IF fw[w].driver = f_driver THEN FALSE ELSE f_probed)
    /\ UNCHANGED nonFetchVars

\* restart_if_needed: the probe answers (or there is no driver): nothing is done
RestartNotNeeded(w) ==
    /\ fw[w].pc = "restart"
    /\ f_driver = 0 \/ f_alive
    /\ fw' = [fw EXCEPT ![w].pc = "reacquire"]
    /\ UNCHANGED <<f_driver, f_alive, f_sessions, f_calls>>
    /\ f_probed' = (f_driver # 0)
    /\ UNCHANGED nonFetchVars

\* restart_if_needed: the probe raises; cleanup, then _setup_driver succeeds
RestartSetupOk(w) ==
    /\ fw[w].pc = "restart"
    /\ f_driver # 0 /\ ~f_alive
    /\ f_sessions < MaxSessions
    /\ f_sessions' = f_sessions + 1
    /\ f_driver' = f_sessions + 1
    /\ f_alive' = TRUE
    /\ fw' = [fw EXCEPT ![w].pc = "reacquire"]
    /\ UNCHANGED f_calls
    /\ f_probed' = TRUE
    /\ UNCHANGED nonFetchVars

\* restart_if_needed: the probe raises; cleanup, then _setup_driver fails
RestartSetupFail(w) ==
    /\ fw[w].pc = "restart"
    /\ f_driver # 0 /\ ~f_alive
    /\ f_driver' = 0
    /\ f_alive' = FALSE
    /\ fw' = [fw EXCEPT ![w].pc = "reacquire"]
    /\ UNCHANGED <<f_sessions, f_calls>>
    /\ f_probed' = FALSE
    /\ UNCHANGED nonFetchVars

\* line 133: get_persistent_driver() after the restart, a driver is held
ReacquireHeld(w) ==
    /\ fw[w].pc = "reacquire"
    /\ f_driver # 0
    /\ fw' = [fw EXCEPT ![w].pc = "lastnav", ![w].driver = f_driver]
    /\ UNCHANGED <<f_driver, f_alive, f_sessions, f_calls>>
    /\ UNCHANGED f_probed
    /\ UNCHANGED nonFetchVars

\* line 133: _driver is None and _setup_driver creates a session
ReacquireSetupOk(w) ==
    /\ fw[w].pc = "reacquire"
    /\ f_driver = 0
    /\ f_sessions < MaxSessions
    /\ f_sessions' = f_sessions + 1
    /\ f_driver' = f_sessions + 1
    /\ f_alive' = TRUE
    /\ fw' = [fw EXCEPT ![w].pc = "lastnav", ![w].driver = f_sessions + 1]
    /\ UNCHANGED f_calls
    /\ f_probed' = TRUE
    /\ UNCHANGED nonFetchVars

\* lines 134-135: no driver after the restart; the raise is caught at line 261
ReacquireSetupFail(w) ==
    /\ fw[w].pc = "reacquire"
    /\ f_driver = 0
    /\ fw' = Ended([fw EXCEPT ![w].noDriver = TRUE], w, "error", NoResult)
    /\ UNCHANGED <<f_driver, f_alive, f_sessions, f_calls>>
    /\ UNCHANGED f_probed
    /\ UNCHANGED nonFetchVars

\* line 136: the navigation after the restart succeeds
LastNavOk(w) ==
    /\ fw[w].pc = "lastnav"
    /\ fw[w].driver = f_driver
    /\ f_alive
    /\ fw' = [fw EXCEPT ![w].pc = "parse"]
    /\ UNCHANGED <<f_driver, f_alive, f_sessions, f_calls>>
    /\ f_probed' = (IF fw[w].driver = f_driver THEN FALSE ELSE f_probed)
    /\ UNCHANGED nonFetchVars

\* line 136: the navigation after the restart raises; caught at line 261
LastNavFail(w) ==
    /\ fw[w].pc = "lastnav"
    /\ fw' = Ended([fw EXCEPT ![w].navFails = @ + 1,
                              ![w].failedOn = @ \cup {fw[w].driver}],
                    w, "error", NoResult)
    /\ UNCHANGED <<f_driver, f_alive, f_sessions, f_calls>>
    /\ f_probed' = (IF fw[w].driver = f_driver THEN FALSE ELSE f_probed)
    /\ UNCHANGED nonFetchVars

\* lines 140-259: page_source is read, parsed and validated; the record is returned
ParseOk(w) ==
    /\ fw[w].pc = "parse"
    /\ fw[w].driver = f_driver
    /\ f_alive
    /\ \E valid \in BOOLEAN : EndRendered(w, "ok", RenderedRecord(valid))
    /\ UNCHANGED <<f_driver, f_alive, f_sessions, f_calls>>
    /\ UNCHANGED f_probed
    /\ UNCHANGED nonFetchVars

\* line 140: driver.page_source raises (the session is gone); caught at line 261
ParseFail(w) ==
    /\ fw[w].pc = "parse"
    /\ ~(fw[w].driver = f_driver /\ f_alive)
    /\ EndRendered(w, "error", NoResult)
    /\ UNCHANGED <<f_driver, f_alive, f_sessions, f_calls>>
    /\ UNCHANGED f_probed
    /\ UNCHANGED nonFetchVars

\* scrape_tripitaka_page_fallback: the request succeeds
FallbackOk(w) ==
    /\ fw[w].pc = "fallback"
    /\ fw' = [fw EXCEPT ![w].pc = "returned", ![w].result = FallbackRecord,
                        ![w].served = "static"]
    /\ UNCHANGED <<f_driver, f_alive, f_sessions, f_calls>>
    /\ UNCHANGED f_probed
    /\ UNCHANGED nonFetchVars

\* scrape_tripitaka_page_fallback: the request raises; the error record is returned
FallbackFail(w) ==
    /\ fw[w].pc = "fallback"
    /\ fw' = [fw EXCEPT ![w].pc = "returned", ![w].result = FallbackErrorRecord,
                        ![w].served = "static"]
    /\ UNCHANGED <<f_driver, f_alive, f_sessions, f_calls>>
    /\ UNCHANGED f_probed
    /\ UNCHANGED nonFetchVars

\* the browser behind the session stops answering
SessionCrash ==
    /\ f_driver # 0
    /\ f_alive
    /\ f_alive' = FALSE
    /\ UNCHANGED <<f_driver, f_sessions, f_calls, fw>>
    /\ UNCHANGED f_probed
    /\ UNCHANGED nonFetchVars

\* the orchestrator is not running
OrchParked ==
    /\ proc = 0
    /\ entry = "none"
    /\ start = 1
    /\ end = 0
    /\ pc = "parked"
    /\ skip_invalid = FALSE
    /\ scraped_count = 0
    /\ error_count = 0
    /\ progress_file = <<>>
    /\ error_log_file = <<>>
    /\ batch_files = <<>>
    /\ batches = <<>>
    /\ batch_idx = 0
    /\ pendingQ = <<>>
    /\ running = {}
    /\ completedQ = <<>>
    /\ batch_data = <<>>
    /\ attempts = <<>>
    /\ outcome = <<>>
    /\ strategies = <<>>
    /\ fetched = <<>>
    /\ runStart = [scraped |-> 0, errors |-> 0, logLen |-> 0]
    /\ written = {}
    /\ lastSaved = <<0, 0>>

\* persistent_webdriver.py has been imported: webdriver_manager = PersistentWebDriver()
\* ran _setup_driver, which created the first session or failed (_driver = None)
InitFetch ==
    /\ LockParked
    /\ AllParked
    /\ ManagerParked
    /\ NikayaParked
    /\ AsCompletedParked
    /\ RobustParked
    /\ CadParked
    /\ TestParked
    /\ EnumParked
    /\ OrchParked
    /\ LookupParked
    /\ ValidParked
    /\ \E ok \in BOOLEAN :
          /\ f_driver = (IF ok THEN 1 ELSE 0)
          /\ f_alive = ok
          /\ f_sessions = (IF ok THEN 1 ELSE 0)
          /\ f_probed = ok
    /\ f_calls = 0
    /\ fw = [w \in Fetchers |-> FetchIdle]

NextFetch ==
    \/ \E w \in Fetchers : FetchBegin(w)
    \/ \E w \in Fetchers : AcquireHeld(w)
    \/ \E w \in Fetchers : AcquireSetupOk(w)
    \/ \E w \in Fetchers : AcquireSetupFail(w)
    \/ \E w \in Fetchers : NavOk(w)
    \/ \E w \in Fetchers : NavFail(w)
    \/ \E w \in Fetchers : RestartNotNeeded(w)
    \/ \E w \in Fetchers : RestartSetupOk(w)
    \/ \E w \in Fetchers : RestartSetupFail(w)
    \/ \E w \in Fetchers : ReacquireHeld(w)
    \/ \E w \in Fetchers : ReacquireSetupOk(w)
    \/ \E w \in Fetchers : ReacquireSetupFail(w)
    \/ \E w \in Fetchers : LastNavOk(w)
    \/ \E w \in Fetchers : LastNavFail(w)
    \/ \E w \in Fetchers : ParseOk(w)
    \/ \E w \in Fetchers : ParseFail(w)
    \/ \E w \in Fetchers : FallbackOk(w)
    \/ \E w \in Fetchers : FallbackFail(w)
    \/ SessionCrash

SpecFetch == InitFetch /\ [][NextFetch]_vars

(***************************************************************************)
(* config/nikaya_config.py: get_nikaya_info applied to identifiers around  *)
(* every boundary of the table                                             *)
(***************************************************************************)
Boundaries ==
    { NIKAYA_RANGES[k].start : k \in 1..Len(NIKAYA_RANGES) }
        \cup { NIKAYA_RANGES[k].end : k \in 1..Len(NIKAYA_RANGES) }

LookupInputs ==
    { n \in UNION { (b - LookupMargin)..(b + LookupMargin) : b \in Boundaries } : n >= 0 }

InitLookup ==
    /\ LockParked
    /\ AllParked
    /\ ManagerParked
    /\ NikayaParked
    /\ AsCompletedParked
    /\ RobustParked
    /\ CadParked
    /\ TestParked
    /\ EnumParked
    /\ OrchParked
    /\ FetchParked
    /\ ValidParked
    /\ lk_pc = "call"
    /\ lk_in \in LookupInputs
    /\ lk_out = NoneInfo

LookupReturn ==
    /\ lk_pc = "call"
    /\ lk_out' = get_nikaya_info(lk_in)
    /\ lk_pc' = "done"
    /\ UNCHANGED lk_in
    /\ UNCHANGED nonLookupVars

NextLookup == LookupReturn

SpecLookup == InitLookup /\ [][NextLookup]_vars

(***************************************************************************)
(* scraper/bulk_scraper.py: get_sutta_urls with step = 1, on its own, with *)
(* end given or left None                                                  *)
(***************************************************************************)
nonEnumVars == <<orchVars, fetchVars, lookupVars, validVars, lockVars, allVars, testVars, cadVars, robustVars, acVars, nikVars, mgrVars>>

RECURSIVE RangeFold(_, _)
\* find_valid_sutta_range, lines 58-65: the loop over NIKAYA_RANGES.values();
\* acc.min_inf stands for min_sutta = float('inf')
RangeFold(k, acc) ==
    IF k > Len(NIKAYA_RANGES) THEN acc
    ELSE LET nikaya_info == NIKAYA_RANGES[k] IN
         RangeFold(k + 1,
            [total_suttas |-> acc.total_suttas + (nikaya_info.end - nikaya_info.start + 1),
             min_inf |-> FALSE,
             min_sutta |-> IF acc.min_inf \/ nikaya_info.start < acc.min_sutta
                           THEN nikaya_info.start ELSE acc.min_sutta,
             max_sutta |-> IF nikaya_info.end > acc.max_sutta
                           THEN nikaya_info.end ELSE acc.max_sutta])

\* find_valid_sutta_range: (min_sutta, max_sutta, total_suttas)
find_valid_sutta_range ==
    RangeFold(1, [total_suttas |-> 0, min_inf |-> TRUE, min_sutta |-> 0, max_sutta |-> 0])

\* lines 81-85: end given, or min(max_sutta + 1000, 100000)
EndUsed(e) ==
    IF e.given THEN e.value
    ELSE IF find_valid_sutta_range.max_sutta + EndBuffer < EndCeiling
         THEN find_valid_sutta_range.max_sutta + EndBuffer
         ELSE EndCeiling

\* the end of the last range of the table plus the buffer
TableTop == NIKAYA_RANGES[Len(NIKAYA_RANGES)].end + EndBuffer

\* (start, end) in a small window, empty ranges included, and starts around
\* the top of the table with end left None
EnumInputs ==
    { [start |-> a, end |-> [given |-> TRUE, value |-> b]] :
          a \in 1..EnumSpan, b \in 0..EnumSpan }
        \cup { [start |-> a, end |-> [given |-> FALSE, value |-> 0]] :
                  a \in (TableTop - EnumSpan)..(TableTop + 1) }

InitEnum ==
    /\ LockParked
    /\ AllParked
    /\ ManagerParked
    /\ NikayaParked
    /\ AsCompletedParked
    /\ RobustParked
    /\ CadParked
    /\ TestParked
    /\ OrchParked
    /\ FetchParked
    /\ LookupParked
    /\ ValidParked
    /\ e_pc = "call"
    /\ \E in \in EnumInputs : e_start = in.start /\ e_end = in.end
    /\ e_urls = <<>>

EnumReturn ==
    /\ e_pc = "call"
    /\ e_urls' = get_sutta_urls(e_start, EndUsed(e_end))
    /\ e_pc' = "done"
    /\ UNCHANGED <<e_start, e_end>>
    /\ UNCHANGED nonEnumVars

NextEnum == EnumReturn

SpecEnum == InitEnum /\ [][NextEnum]_vars

(***************************************************************************)
(* scraper/tripitaka_scraper.py: is_valid_tripitaka_content                *)
(*                                                                         *)
(* A text is [lead, chunks, trail]: lead blanks, then the words of the     *)
(* chunks separated by single blanks, then trail blanks.  A chunk          *)
(* [toks, n] is the word sequence toks written n times.  Words are named   *)
(* in ASCII; TokTable gives the length in characters of the word of the    *)
(* source each name stands for.                                            *)
(***************************************************************************)
\* empty_page_indicators, lines 24-30, as word sequences
empty_page_indicators ==
    << <<"uthum", "wu", "dharmadanaya", "pinisa", "mema", "desuma", "obe",
         "mithuran", "athare", "bedaharinna">>,
       <<"Previous", "Next">>,
       <<"(c)", "1999", "-", "2021", "Mahamevnawa", "Buddhist", "Monastery">>,
       <<"(c)", "1999", "-", "2025", "Mahamevnawa", "Buddhist", "Monastery">>,
       <<"Contact:", "info@tripitaka.online">> >>

\* tripitaka_indicators, lines 33-41, as word sequences
tripitaka_indicators ==
    << <<"ma", "hata", "asannata", "labune">>,
       <<"evam", "me", "sutam">>,
       <<"budurajanan", "wahanse">>,
       <<"bhagyawath">>,
       <<"bhikshu">>,
       <<"suthraya">>,
       <<"nikaya">> >>

\* twelve different words of twenty characters each
Fillers ==
    <<"w01", "w02", "w03", "w04", "w05", "w06", "w07", "w08", "w09", "w10", "w11", "w12">>

\* len() of each word: the words of the indicator lists as in the source, "a",
\* an unbroken word of 100 characters, "bhikshuwa" (bhikshu with one more
\* letter), and the filler words
TokTable ==
    { <<"uthum", 5>>, <<"wu", 2>>, <<"dharmadanaya", 8>>, <<"pinisa", 5>>, <<"mema", 3>>,
      <<"desuma", 5>>, <<"obe", 3>>, <<"mithuran", 7>>, <<"athare", 4>>,
      <<"bedaharinna", 10>>,
      <<"Previous", 8>>, <<"Next", 4>>,
      <<"(c)", 1>>, <<"1999", 4>>, <<"-", 1>>, <<"2021", 4>>, <<"2025", 4>>,
      <<"Mahamevnawa", 11>>, <<"Buddhist", 8>>, <<"Monastery", 9>>,
      <<"Contact:", 8>>, <<"info@tripitaka.online", 21>>,
      <<"ma", 2>>, <<"hata", 2>>, <<"asannata", 6>>, <<"labune", 6>>,
      <<"evam", 3>>, <<"me", 2>>, <<"sutam", 4>>,
      <<"budurajanan", 10>>, <<"wahanse", 6>>,
      <<"bhagyawath", 9>>, <<"bhikshu", 6>>, <<"suthraya", 7>>, <<"nikaya", 5>>,
      <<"a", 1>>, <<"long100", 100>>, <<"bhikshuwa", 7>> }
        \cup { <<Fillers[k], 20>> : k \in 1..Len(Fillers) }

TokLenOf == [t \in { e[1] : e \in TokTable } |-> (CHOOSE e \in TokTable : e[1] = t)[2]]

TokLen(t) == TokLenOf[t]

\* <<t, p>>: the word t starts with the word p
PrefixOf == { <<"bhikshuwa", "bhikshu">> }

TokStartsWith(t, p) == t = p \/ <<t, p>> \in PrefixOf

\* no word of the vocabulary ends with another one
TokEndsWith(t, p) == t = p

\* p in t, for words
TokContains(t, p) == TokStartsWith(t, p) \/ TokEndsWith(t, p)

RECURSIVE SumLen(_)
SumLen(toks) == IF toks = <<>> THEN 0 ELSE TokLen(Head(toks)) + SumLen(Tail(toks))

\* characters of a word sequence written with single blanks
ToksChars(toks) == SumLen(toks) + Len(toks) - 1

ChunkChars(c) == c.n * ToksChars(c.toks) + (c.n - 1)

RECURSIVE SumChunkChars(_)
SumChunkChars(chunks) ==
    IF chunks = <<>> THEN 0 ELSE ChunkChars(Head(chunks)) + SumChunkChars(Tail(chunks))

\* characters between the first and the last word of a text
CoreChars(text) ==
    IF text.chunks = <<>> THEN 0
    ELSE SumChunkChars(text.chunks) + Len(text.chunks) - 1

\* len(text)
StrLen(text) == text.lead + CoreChars(text) + text.trail

RECURSIVE SumTokCount(_)
SumTokCount(chunks) ==
    IF chunks = <<>> THEN 0
    ELSE Head(chunks).n * Len(Head(chunks).toks) + SumTokCount(Tail(chunks))

\* len(text.split())
TokCount(text) == SumTokCount(text.chunks)

\* set(text.split())
TokSet(text) ==
    UNION { { text.chunks[k].toks[j] : j \in 1..Len(text.chunks[k].toks) }
            : k \in 1..Len(text.chunks) }

\* len((sinhala_text + pali_text).strip())
StrippedTotalLen(s, p) ==
    IF s.chunks = <<>> /\ p.chunks = <<>> THEN 0
    ELSE IF p.chunks = <<>> THEN CoreChars(s)
    ELSE IF s.chunks = <<>> THEN CoreChars(p)
    ELSE CoreChars(s) + s.trail + p.lead + CoreChars(p)

\* the longest indicator, in words
PhraseCap ==
    CHOOSE m \in 1..20 :
        /\ \A k \in 1..Len(empty_page_indicators) : Len(empty_page_indicators[k]) <= m
        /\ \E k \in 1..Len(empty_page_indicators) : Len(empty_page_indicators[k]) = m

RECURSIVE Repeat(_, _)
Repeat(toks, n) == IF n = 0 THEN <<>> ELSE toks \o Repeat(toks, n - 1)

\* how many times the words of a chunk need writing for every run of at most
\* PhraseCap words of the text to be a run of what is written
RepsKept(c) ==
    LET r == (PhraseCap + 2 * Len(c.toks) - 1) \div Len(c.toks)
    IN  IF c.n > r THEN r ELSE c.n

RECURSIVE Words(_)
\* the words of the chunks in order, each chunk written RepsKept times: no
\* indicator is long enough to tell
Words(chunks) ==
    IF chunks = <<>> THEN <<>>
    ELSE Repeat(Head(chunks).toks, RepsKept(Head(chunks))) \o Words(Tail(chunks))

\* the words of sinhala_text + " " + pali_text; "<blanks>" stands where more
\* than the one blank separates two words
CheckedWords(s, p) ==
    Words(s.chunks)
        \o (IF s.trail + p.lead > 0 THEN <<"<blanks>">> ELSE <<>>)
        \o Words(p.chunks)

\* indicator in content_to_check, the indicator starting at word i
MatchesAt(ws, i, phrase) ==
    LET k == Len(phrase) IN
        /\ i + k - 1 <= Len(ws)
        /\ IF k = 1 THEN TokContains(ws[i], phrase[1])
           ELSE /\ TokEndsWith(ws[i], phrase[1])
                /\ TokStartsWith(ws[i + k - 1], phrase[k])
                /\ \A j \in 2..(k - 1) : ws[i + j - 1] = phrase[j]

PhraseIn(phrase, ws) == \E i \in 1..Len(ws) : MatchesAt(ws, i, phrase)

\* lines 56-59: empty_indicators_found
empty_indicators_found(s, p) ==
    LET ws == CheckedWords(s, p)
    IN  { k \in 1..Len(empty_page_indicators) : PhraseIn(empty_page_indicators[k], ws) }

\* lines 63-66 and 90-93: tripitaka_indicators_found
tripitaka_indicators_found(s, p) ==
    LET ws == CheckedWords(s, p)
    IN  { k \in 1..Len(tripitaka_indicators) : PhraseIn(tripitaka_indicators[k], ws) }

\* len(content_to_check), content_to_check = sinhala_text + " " + pali_text
CheckedLen(s, p) == StrLen(s) + 1 + StrLen(p)

\* len(lines), lines = content_to_check.split()
LineCount(s, p) == TokCount(s) + TokCount(p)

\* len(unique_words)
UniqueCount(s, p) == Cardinality(TokSet(s) \cup TokSet(p))

\* repetition_ratio < 0.3 and repetition_ratio < 0.03, in whole numbers
RatioBelowLenient(s, p) == 10 * UniqueCount(s, p) < 3 * LineCount(s, p)

RatioBelowStrict(s, p) == 100 * UniqueCount(s, p) < 3 * LineCount(s, p)

\* line 45 without the strip(): title in ["tripitaka.online", "Untitled", ""]
TitleIsPlaceholderUnstripped(title) ==
    /\ ~title.padded
    /\ title.core \in {"tripitaka.online", "Untitled", ""}

\* title.strip() in ["tripitaka.online", "Untitled", ""]
TitleIsPlaceholder(title) == title.core \in {"tripitaka.online", "Untitled", ""}

\* lines 62-70 without the look for tripitaka_indicators
EmptyPageRuleNoPositiveSignal(s, p) ==
    Cardinality(empty_indicators_found(s, p)) >= 2

\* lines 62-70: the empty page test
EmptyPageRule(s, p) ==
    /\ Cardinality(empty_indicators_found(s, p)) >= 2
    /\ tripitaka_indicators_found(s, p) = {}

\* lines 84-86 left out: only short content is tested for repetition
RepetitionRuleShortOnly(s, p) ==
    IF LineCount(s, p) > MinTokens
    THEN IF RatioBelowLenient(s, p) /\ CheckedLen(s, p) < ShortContentChars
         THEN "short_repetition"
         ELSE "pass"
    ELSE "pass"

\* lines 73-86: the repetition test
RepetitionRule(s, p) ==
    IF LineCount(s, p) > MinTokens
    THEN IF RatioBelowLenient(s, p) /\ CheckedLen(s, p) < ShortContentChars
         THEN "short_repetition"
         ELSE IF RatioBelowStrict(s, p) THEN "extreme_repetition"
         ELSE "pass"
    ELSE "pass"

\* lines 88-103: what is left to the rules after the repetition test
AcceptRule(s, p) ==
    IF StrLen(s) + StrLen(p) > LongContentChars
    THEN IF tripitaka_indicators_found(s, p) # {}
         THEN "valid_with_indicators"
         ELSE "valid_long_no_indicators"
    ELSE "valid"

\* lines 72-103: the rules after the empty page test
LaterRules(s, p) ==
    IF RepetitionRule(s, p) # "pass" THEN RepetitionRule(s, p) ELSE AcceptRule(s, p)

\* is_valid_tripitaka_content: the return statement reached
ValidatorReturn(s, p, title) ==
    IF TitleIsPlaceholder(title) THEN "invalid_title"
    ELSE IF StrippedTotalLen(s, p) < MinContentChars THEN "too_short"
    ELSE IF EmptyPageRule(s, p) THEN "empty_page"
    ELSE LaterRules(s, p)

\* the return statements that return True
AcceptingReturns == {"valid_with_indicators", "valid_long_no_indicators", "valid"}

is_valid_tripitaka_content(s, p, title) ==
    ValidatorReturn(s, p, title) \in AcceptingReturns

(***************************************************************************)
(* The texts and titles the validator is applied to                        *)
(***************************************************************************)
ChunkLib ==
    { [toks |-> <<"a">>, n |-> 11],
      [toks |-> <<"a">>, n |-> 250],
      [toks |-> <<"a">>, n |-> 1100],
      [toks |-> Fillers, n |-> 3],
      [toks |-> Fillers, n |-> 10],
      [toks |-> <<"long100">>, n |-> 6],
      [toks |-> <<"bhikshu">>, n |-> 1],
      [toks |-> <<"bhikshu">>, n |-> 400],
      [toks |-> <<"bhikshuwa">>, n |-> 1],
      [toks |-> <<"evam", "me", "sutam">>, n |-> 1],
      [toks |-> <<"Previous", "Next">>, n |-> 1],
      [toks |-> <<"Previous">>, n |-> 1],
      [toks |-> <<"Previous", "Next", "Contact:", "info@tripitaka.online">>, n |-> 1],
      [toks |-> <<"Previous", "Next", "Contact:", "info@tripitaka.online">>, n |-> 11],
      [toks |-> <<"(c)", "1999", "-", "2025", "Mahamevnawa", "Buddhist", "Monastery">>,
       n |-> 1] }

PaliChunkLib ==
    { [toks |-> <<"Next">>, n |-> 1],
      [toks |-> <<"bhikshu">>, n |-> 1],
      [toks |-> <<"Contact:", "info@tripitaka.online">>, n |-> 1],
      [toks |-> <<"a">>, n |-> 1100],
      [toks |-> Fillers, n |-> 3] }

RECURSIVE ChunkSeqs(_)
\* the sequences of at most m chunks
ChunkSeqs(m) ==
    IF m = 0 THEN { <<>> }
    ELSE ChunkSeqs(m - 1)
            \cup { Append(q, c) : q \in { x \in ChunkSeqs(m - 1) : Len(x) = m - 1 },
                                  c \in ChunkLib }

\* sinhala_text: up to MaxChunks chunks, ending with no blank, with two, or
\* with a long run of them
SinhalaTexts ==
    { [lead |-> 0, chunks |-> q, trail |-> t] :
        q \in ChunkSeqs(MaxChunks), t \in {0, 2, 2100} }

\* pali_text: empty, or one chunk
PaliTexts ==
    { [lead |-> 0, chunks |-> <<>>, trail |-> 0] }
        \cup { [lead |-> 0, chunks |-> <<c>>, trail |-> 0] : c \in PaliChunkLib }

\* title: core is title.strip(), padded says whether blanks surround it
Titles ==
    { [core |-> "", padded |-> FALSE],
      [core |-> "tripitaka.online", padded |-> FALSE],
      [core |-> "Untitled", padded |-> TRUE],
      [core |-> "Brahmajala Sutta", padded |-> FALSE] }

InitValid ==
    /\ LockParked
    /\ AllParked
    /\ ManagerParked
    /\ NikayaParked
    /\ AsCompletedParked
    /\ RobustParked
    /\ CadParked
    /\ TestParked
    /\ EnumParked
    /\ OrchParked
    /\ FetchParked
    /\ LookupParked
    /\ v_pc = "call"
    /\ v_sinhala \in SinhalaTexts
    /\ v_pali \in PaliTexts
    /\ v_title \in Titles
    /\ v_out = "none"

ValidatorCall ==
    /\ v_pc = "call"
    /\ v_out' = ValidatorReturn(v_sinhala, v_pali, v_title)
    /\ v_pc' = "done"
    /\ UNCHANGED <<v_sinhala, v_pali, v_title>>
    /\ UNCHANGED nonValidVars

NextValid == ValidatorCall

SpecValid == InitValid /\ [][NextValid]_vars

Next ==
    \/ Resume
    \/ StartBulk
    \/ WorkerStart
    \/ WorkerKept
    \/ WorkerDropped
    \/ WorkerFailed
    \/ Collect
    \/ FlushBatch
    \/ FinishBulk
    \/ Restart

Spec == Init /\ [][Next]_vars

(***************************************************************************)
(* One process: main.py runs once on the output directory and ends         *)
(***************************************************************************)
NextRun ==
    \/ Resume
    \/ StartBulk
    \/ WorkerStart
    \/ WorkerKept
    \/ WorkerDropped
    \/ WorkerFailed
    \/ Collect
    \/ FlushBatch
    \/ FinishBulk

SpecRun == Init /\ [][NextRun]_vars

(***************************************************************************)
(* a run in which writes of error_log.json may fail                        *)
(***************************************************************************)
\* scrape_single_sutta catches the exception (lines 154-168) and the write in
\* log_error raises: error_count was incremented at line 162 already
WorkerFailedLogLost ==
    /\ PoolOpen
    /\ \E i \in running, page \in Pages :
          /\ ScrapeRoute(page, skip_invalid) = "failed"
          /\ running' = running \ {i}
          /\ error_count' = error_count + 1
          /\ error_log_file' \in log_errorWriteFails(error_log_file)
          /\ completedQ' = Append(completedQ, <<>>)
          /\ outcome' = [outcome EXCEPT ![i] = "failed"]
          /\ fetched' = [fetched EXCEPT ![i] = page]
    /\ UNCHANGED nonOrchVars
    /\ UNCHANGED <<proc, entry, start, end, pc, skip_invalid, scraped_count,
                   progress_file, batch_files, batches, batch_idx, pendingQ,
                   batch_data, attempts, strategies, runStart, written, lastSaved>>

\* the output directory is empty: no error log, no checkpoint to resume from
InitFault ==
    /\ Init
    /\ progress_file = NoFiles.progress
    /\ error_log_file = NoFiles.errors
    /\ batch_files = NoFiles.batches

NextFault ==
    \/ NextRun
    \/ WorkerFailedLogLost

SpecFault == InitFault /\ [][NextFault]_vars

(***************************************************************************)
(* KeyboardInterrupt: raised in the main thread, it leaves scrape_bulk and  *)
(* is caught by main.py (lines 146-148), which exits                       *)
(***************************************************************************)
OrchFrame ==
    UNCHANGED <<proc, entry, start, end, skip_invalid, batches, batch_idx, attempts,
                outcome, strategies, fetched, runStart, written>>

\* the interrupt arrives while the main thread is inside the with block of
\* lines 228-239: the exception leaves the block, batch_data is given up and
\* ThreadPoolExecutor.__exit__ (shutdown(wait=True)) waits for the threads;
\* urls submitted and not started stay in the executor's queue
Interrupt ==
    /\ pc = "batch"
    /\ pc' = "draining"
    /\ batch_data' = <<>>
    /\ OrchFrame
    /\ UNCHANGED <<scraped_count, error_count, progress_file, error_log_file,
                   batch_files, pendingQ, running, completedQ, lastSaved>>
    /\ UNCHANGED nonOrchVars

\* __exit__ returns when the queue is empty and every thread has ended; the
\* exception goes on to main.py, past lines 241-257
ThreadsJoined ==
    /\ pc = "draining"
    /\ pendingQ = <<>>
    /\ running = {}
    /\ pc' = "interrupted"
    /\ completedQ' = <<>>
    /\ OrchFrame
    /\ UNCHANGED <<scraped_count, error_count, progress_file, error_log_file,
                   batch_files, pendingQ, running, batch_data, lastSaved>>
    /\ UNCHANGED nonOrchVars

\* the interrupt arrives in save_batch (lines 343-346), between two writes of
\* json.dump: the with block is past, the file is left truncated
InterruptInSaveBatch ==
    /\ pc = "batch"
    /\ pendingQ = <<>>
    /\ running = {}
    /\ completedQ = <<>>
    /\ batch_data # <<>>
    /\ batch_files' = (batch_idx :> TruncatedFile) @@ batch_files
    /\ batch_data' = <<>>
    /\ pc' = "interrupted"
    /\ OrchFrame
    /\ UNCHANGED <<scraped_count, error_count, progress_file, error_log_file,
                   pendingQ, running, completedQ, lastSaved>>
    /\ UNCHANGED nonOrchVars

\* the interrupt arrives before scrape_bulk has submitted anything, or in the
\* summary before the final save_progress (lines 247-256)
InterruptOutsideBatch ==
    /\ pc \in {"constructed", "ready", "summary"}
    /\ pc' = "interrupted"
    /\ OrchFrame
    /\ UNCHANGED <<scraped_count, error_count, progress_file, error_log_file,
                   batch_files, pendingQ, running, completedQ, batch_data, lastSaved>>
    /\ UNCHANGED nonOrchVars

\* the interrupt arrives in the final save_progress (lines 195-197), between
\* two writes of json.dump; KeyboardInterrupt is not an Exception (line 198)
InterruptInSaveProgress ==
    /\ pc = "summary"
    /\ progress_file' = TruncatedFile
    /\ pc' = "interrupted"
    /\ OrchFrame
    /\ UNCHANGED <<scraped_count, error_count, error_log_file, batch_files, pendingQ,
                   running, completedQ, batch_data, lastSaved>>
    /\ UNCHANGED nonOrchVars

NextIntr ==
    \/ Resume
    \/ StartBulk
    \/ WorkerStart
    \/ WorkerKept
    \/ WorkerDropped
    \/ WorkerFailed
    \/ Collect
    \/ FlushBatch
    \/ FinishBulk
    \/ Restart
    \/ Interrupt
    \/ ThreadsJoined
    \/ InterruptInSaveBatch
    \/ InterruptOutsideBatch
    \/ InterruptInSaveProgress

SpecIntr == Init /\ [][NextIntr]_vars

(***************************************************************************)
(* scraper/bulk_scraper.py: scrape_all_nikayas, as main.py calls it on a   *)
(* fresh output directory (mode "all"), with nikaya_order given            *)
(***************************************************************************)
NikayaKeys == {NIKAYA_RANGES[k].key : k \in DOMAIN NIKAYA_RANGES}

\* NIKAYA_RANGES[nikaya_key]
NikayaEntry(key) == NIKAYA_RANGES[CHOOSE k \in DOMAIN NIKAYA_RANGES : NIKAYA_RANGES[k].key = key]

\* the end of the range handed to scrape_bulk: the collection is followed
\* over its first NikayaLen identifiers
NikayaEnd(info) ==
    IF info.start + NikayaLen - 1 < info.end THEN info.start + NikayaLen - 1 ELSE info.end

\* values of the nikaya_order argument: configured keys, and a key that is
\* not in NIKAYA_RANGES between two that are
NikayaOrders == { <<"digha", "majjhima">>, <<"digha", "vinaya", "majjhima">> }

InitAll ==
    /\ ManagerParked
    /\ NikayaParked
    /\ AsCompletedParked
    /\ RobustParked
    /\ CadParked
    /\ TestParked
    /\ EnumParked
    /\ LockParked
    /\ FetchParked
    /\ LookupParked
    /\ ValidParked
    /\ proc = 1
    /\ entry = "all"
    /\ start = 1
    /\ end = 0
    /\ pc = "all_loop"
    /\ skip_invalid = FALSE
    /\ scraped_count = 0
    /\ error_count = 0
    /\ progress_file = <<>>
    /\ error_log_file = <<>>
    /\ batch_files = <<>>
    /\ lastSaved = <<0, 0>>
    /\ batches = <<>>
    /\ batch_idx = 0
    /\ pendingQ = <<>>
    /\ running = {}
    /\ completedQ = <<>>
    /\ batch_data = <<>>
    /\ attempts = <<>>
    /\ outcome = <<>>
    /\ strategies = <<>>
    /\ fetched = <<>>
    /\ runStart = [scraped |-> 0, errors |-> 0, logLen |-> 0]
    /\ written = {}
    /\ nikaya_order \in NikayaOrders
    /\ all_idx = 0
    /\ overall_scraped = 0
    /\ overall_errors = 0
    /\ all_log = <<>>

AllRest == UNCHANGED <<fetchVars, lookupVars, validVars, lockVars, enumVars, testVars, cadVars, robustVars, acVars, nikVars, mgrVars>>

\* lines 313-323 and scrape_nikaya up to its call of scrape_bulk (267-290):
\* the next key is configured; the counters are reset and batch files go to
\* the directory of the collection
AllIterReset ==
    /\ pc = "all_loop"
    /\ all_idx < Len(nikaya_order)
    /\ nikaya_order[all_idx + 1] \in NikayaKeys
    /\ all_idx' = all_idx + 1
    /\ scraped_count' = 0
    /\ error_count' = 0
    /\ LET nikaya_info == NikayaEntry(nikaya_order[all_idx + 1]) IN
          /\ start' = nikaya_info.start
          /\ end' = NikayaEnd(nikaya_info)
    /\ batch_files' = <<>>
    /\ pc' = "ready"
    /\ UNCHANGED <<proc, entry, skip_invalid, progress_file, error_log_file, batches,
                   batch_idx, pendingQ, running, completedQ, batch_data, attempts,
                   outcome, strategies, fetched, runStart, written, lastSaved>>
    /\ UNCHANGED <<nikaya_order, overall_scraped, overall_errors, all_log>>
    /\ AllRest

\* line 315: NIKAYA_RANGES[nikaya_key]['name'] is evaluated before the try of
\* line 322; for a key that is not configured it raises KeyError, which
\* leaves scrape_all_nikayas
AllIterUnknownKey ==
    /\ pc = "all_loop"
    /\ all_idx < Len(nikaya_order)
    /\ nikaya_order[all_idx + 1] \notin NikayaKeys
    /\ all_idx' = all_idx + 1
    /\ pc' = "all_crashed"
    /\ OrchFrame
    /\ UNCHANGED <<scraped_count, error_count, progress_file, error_log_file,
                   batch_files, pendingQ, running, completedQ, batch_data, lastSaved>>
    /\ UNCHANGED <<nikaya_order, overall_scraped, overall_errors, all_log>>
    /\ AllRest

\* lines 323-325: scrape_nikaya returned; the counters are added to the totals
AllAccumulate ==
    /\ pc = "done"
    /\ overall_scraped' = overall_scraped + scraped_count
    /\ overall_errors' = overall_errors + error_count
    /\ all_log' = Append(all_log, [key |-> nikaya_order[all_idx], scraped |-> scraped_count,
                                   errors |-> error_count, how |-> "completed"])
    /\ pc' = "all_loop"
    /\ OrchFrame
    /\ UNCHANGED <<scraped_count, error_count, progress_file, error_log_file,
                   batch_files, pendingQ, running, completedQ, batch_data, lastSaved>>
    /\ UNCHANGED <<nikaya_order, all_idx>>
    /\ AllRest

\* save_batch (lines 343-346, called at 244) raises OSError: it has no handler,
\* nor have scrape_bulk and scrape_nikaya (whose finally restores output_dir);
\* the except of lines 326-328 prints and continues with the next key
SaveBatchRaises ==
    /\ pc = "batch"
    /\ pendingQ = <<>>
    /\ running = {}
    /\ completedQ = <<>>
    /\ batch_data # <<>>
    /\ batch_data' = <<>>
    /\ all_log' = Append(all_log, [key |-> nikaya_order[all_idx], scraped |-> scraped_count,
                                   errors |-> error_count, how |-> "raised"])
    /\ pc' = "all_loop"
    /\ OrchFrame
    /\ UNCHANGED <<scraped_count, error_count, progress_file, error_log_file,
                   batch_files, pendingQ, running, completedQ, lastSaved>>
    /\ UNCHANGED <<nikaya_order, all_idx, overall_scraped, overall_errors>>
    /\ AllRest

\* lines 330-340: the loop is over, the totals are printed
AllSummary ==
    /\ pc = "all_loop"
    /\ all_idx = Len(nikaya_order)
    /\ pc' = "all_finished"
    /\ OrchFrame
    /\ UNCHANGED <<scraped_count, error_count, progress_file, error_log_file,
                   batch_files, pendingQ, running, completedQ, batch_data, lastSaved>>
    /\ UNCHANGED allVars
    /\ AllRest

NextAll ==
    \/ AllIterReset
    \/ AllIterUnknownKey
    \/ StartBulk
    \/ WorkerStart
    \/ WorkerKept
    \/ WorkerFailed
    \/ Collect
    \/ FlushBatch
    \/ FinishBulk
    \/ AllAccumulate
    \/ SaveBatchRaises
    \/ AllSummary

SpecAll == InitAll /\ [][NextAll]_vars

(***************************************************************************)
(* scrape_nikaya called on one orchestrator, key after key: lines 259-292  *)
(***************************************************************************)
\* values of the nikaya_key argument: two configured keys and one that is not
NikayaArgs == {"digha", "majjhima", "vinaya"}

NikayaRest ==
    UNCHANGED <<fetchVars, lookupVars, validVars, lockVars, allVars, enumVars, testVars,
                cadVars, robustVars, acVars, mgrVars>>

InitNikaya ==
    /\ AsCompletedParked
    /\ RobustParked
    /\ CadParked
    /\ TestParked
    /\ EnumParked
    /\ LockParked
    /\ AllParked
    /\ ManagerParked
    /\ FetchParked
    /\ LookupParked
    /\ ValidParked
    /\ proc = 1
    /\ entry \in {"nikaya_raw", "nikaya_strict"}
    /\ start = 1
    /\ end = 0
    /\ pc = "nikaya_idle"
    /\ skip_invalid = (entry = "nikaya_strict")
    /\ scraped_count = 0
    /\ error_count = 0
    /\ progress_file = <<>>
    /\ error_log_file = <<>>
    /\ batch_files = <<>>
    /\ lastSaved = <<0, 0>>
    /\ batches = <<>>
    /\ batch_idx = 0
    /\ pendingQ = <<>>
    /\ running = {}
    /\ completedQ = <<>>
    /\ batch_data = <<>>
    /\ attempts = <<>>
    /\ outcome = <<>>
    /\ strategies = <<>>
    /\ fetched = <<>>
    /\ runStart = [scraped |-> 0, errors |-> 0, logLen |-> 0]
    /\ written = {}
    /\ output_dir = BaseDir
    /\ file_paths = PathsOf(BaseDir)
    /\ original_output_dir = <<>>
    /\ n_called = {}
    /\ n_last = "none"

\* the finally of lines 290-292 passed only when scrape_bulk returned
AfterFinallyOnReturnOnly(original, current, raised) ==
    IF raised THEN current ELSE original

\* lines 290-292: self.output_dir after the finally clause, whether
\* scrape_bulk returned or raised
AfterFinally(original, current, raised) == original

\* lines 267-269: the key is not in NIKAYA_RANGES, ValueError is raised
NikayaInvalidKey ==
    /\ pc = "nikaya_idle"
    /\ \E nikaya_key \in NikayaArgs \ n_called :
          /\ nikaya_key \notin NikayaKeys
          /\ n_called' = n_called \cup {nikaya_key}
    /\ n_last' = "invalid_key"
    /\ UNCHANGED <<output_dir, file_paths, original_output_dir>>
    /\ UNCHANGED orchVars
    /\ NikayaRest

\* lines 271-284: the directory of the collection is made and becomes
\* output_dir for the call of scrape_bulk that follows
NikayaEnter ==
    /\ pc = "nikaya_idle"
    /\ \E nikaya_key \in NikayaArgs \ n_called :
          /\ nikaya_key \in NikayaKeys
          /\ n_called' = n_called \cup {nikaya_key}
          /\ LET nikaya_info == NikayaEntry(nikaya_key) IN
                /\ start' = nikaya_info.start
                /\ end' = NikayaEnd(nikaya_info)
          /\ original_output_dir' = output_dir
          /\ output_dir' = PathJoin(output_dir, nikaya_key)
    /\ batch_files' = <<>>
    /\ pc' = "ready"
    /\ UNCHANGED <<file_paths, n_last>>
    /\ UNCHANGED <<proc, entry, skip_invalid, scraped_count, error_count, progress_file,
                   error_log_file, batches, batch_idx, pendingQ, running, completedQ,
                   batch_data, attempts, outcome, strategies, fetched, runStart, written,
                   lastSaved>>
    /\ NikayaRest

\* lines 285-292: scrape_bulk returned, the finally clause runs
NikayaReturn ==
    /\ pc = "done"
    /\ output_dir' = AfterFinally(original_output_dir, output_dir, FALSE)
    /\ original_output_dir' = <<>>
    /\ n_last' = "returned"
    /\ pc' = "nikaya_idle"
    /\ OrchFrame
    /\ UNCHANGED <<scraped_count, error_count, progress_file, error_log_file,
                   batch_files, pendingQ, running, completedQ, batch_data, lastSaved>>
    /\ UNCHANGED <<file_paths, n_called>>
    /\ NikayaRest

\* save_batch (lines 343-346, called at 244) raises OSError: scrape_bulk has
\* no handler, the finally clause of scrape_nikaya runs and the exception
\* goes on to the caller
NikayaRaise ==
    /\ pc = "batch"
    /\ pendingQ = <<>>
    /\ running = {}
    /\ completedQ = <<>>
    /\ batch_data # <<>>
    /\ batch_data' = <<>>
    /\ output_dir' = AfterFinally(original_output_dir, output_dir, TRUE)
    /\ original_output_dir' = <<>>
    /\ n_last' = "raised"
    /\ pc' = "nikaya_idle"
    /\ OrchFrame
    /\ UNCHANGED <<scraped_count, error_count, progress_file, error_log_file,
                   batch_files, pendingQ, running, completedQ, lastSaved>>
    /\ UNCHANGED <<file_paths, n_called>>
    /\ NikayaRest

NextNikaya ==
    \/ NikayaInvalidKey
    \/ NikayaEnter
    \/ StartBulk
    \/ WorkerStart
    \/ WorkerKept
    \/ WorkerDropped
    \/ WorkerFailed
    \/ Collect
    \/ FlushBatch
    \/ FinishBulk
    \/ NikayaReturn
    \/ NikayaRaise

SpecNikaya == InitNikaya /\ [][NextNikaya]_vars

(***************************************************************************)
(* main.py, mode "test" (lines 110-127): one BulkTripitakaScraper and a    *)
(* scrape_bulk call per entry of test_ranges, all on the same directory    *)
(***************************************************************************)
\* test_ranges, lines 119-123, each followed over its first RunLen identifiers
TestRanges ==
    << [key |-> "digha",    start |-> 17],
       [key |-> "majjhima", start |-> 265],
       [key |-> "samyutta", start |-> 980] >>

InitTest ==
    /\ LockParked
    /\ AllParked
    /\ ManagerParked
    /\ NikayaParked
    /\ AsCompletedParked
    /\ RobustParked
    /\ CadParked
    /\ EnumParked
    /\ FetchParked
    /\ LookupParked
    /\ ValidParked
    /\ proc = 1
    /\ entry = "test"
    /\ start = 1
    /\ end = 0
    /\ pc = "test_loop"
    /\ skip_invalid = FALSE
    /\ scraped_count = 0
    /\ error_count = 0
    /\ progress_file = <<>>
    /\ error_log_file = <<>>
    /\ batch_files = <<>>
    /\ lastSaved = <<0, 0>>
    /\ batches = <<>>
    /\ batch_idx = 0
    /\ pendingQ = <<>>
    /\ running = {}
    /\ completedQ = <<>>
    /\ batch_data = <<>>
    /\ attempts = <<>>
    /\ outcome = <<>>
    /\ strategies = <<>>
    /\ fetched = <<>>
    /\ runStart = [scraped |-> 0, errors |-> 0, logLen |-> 0]
    /\ written = {}
    /\ t_idx = 0
    /\ t_log = <<>>

TestRest == UNCHANGED <<fetchVars, lookupVars, validVars, lockVars, allVars, enumVars, cadVars, robustVars, acVars, nikVars, mgrVars>>

\* lines 124-126: the next entry of test_ranges; scrape_bulk is called with it
TestIter ==
    /\ pc = "test_loop"
    /\ t_idx < Len(TestRanges)
    /\ t_idx' = t_idx + 1
    /\ start' = TestRanges[t_idx + 1].start
    /\ end' = TestRanges[t_idx + 1].start + RunLen - 1
    /\ pc' = "ready"
    /\ UNCHANGED <<proc, entry, skip_invalid, scraped_count, error_count, progress_file,
                   error_log_file, batch_files, batches, batch_idx, pendingQ, running,
                   completedQ, batch_data, attempts, outcome, strategies, fetched,
                   runStart, written, lastSaved>>
    /\ UNCHANGED t_log
    /\ TestRest

\* scrape_bulk has returned to the loop
TestCallReturned ==
    /\ pc = "done"
    /\ t_log' = Append(t_log, [j \in written |-> batch_files[j]])
    /\ pc' = "test_loop"
    /\ OrchFrame
    /\ UNCHANGED <<scraped_count, error_count, progress_file, error_log_file,
                   batch_files, pendingQ, running, completedQ, batch_data, lastSaved>>
    /\ UNCHANGED t_idx
    /\ TestRest

\* the loop is over
TestEnd ==
    /\ pc = "test_loop"
    /\ t_idx = Len(TestRanges)
    /\ pc' = "test_finished"
    /\ OrchFrame
    /\ UNCHANGED <<scraped_count, error_count, progress_file, error_log_file,
                   batch_files, pendingQ, running, completedQ, batch_data, lastSaved>>
    /\ UNCHANGED testVars
    /\ TestRest

NextTest ==
    \/ TestIter
    \/ StartBulk
    \/ WorkerStart
    \/ WorkerKept
    \/ WorkerFailed
    \/ Collect
    \/ FlushBatch
    \/ FinishBulk
    \/ TestCallReturned
    \/ TestEnd

SpecTest == InitTest /\ [][NextTest]_vars

(***************************************************************************)
(* scraper/bulk_scraper.py: the counters and the checkpoint over a range   *)
(* of CadenceItems identifiers: the sections of scrape_single_sutta under  *)
(* self.lock, in the order the lock lets them run, and the final           *)
(* save_progress of scrape_bulk                                            *)
(***************************************************************************)
\* counters at the start: a new orchestrator, or one that resume_from_progress
\* gave the counters of a checkpoint file
CadenceStarts == { <<0, 0>>, <<9, 1>>, <<15, 3>> }

\* the checkpoint written at every twentieth sutta
CheckpointDueLate(n) == n % (2 * CheckpointEvery) = 0

\* line 145: if self.scraped_count % 10 == 0
CheckpointDue(n) == n % CheckpointEvery = 0

InitCadence ==
    /\ LockParked
    /\ AllParked
    /\ ManagerParked
    /\ NikayaParked
    /\ AsCompletedParked
    /\ RobustParked
    /\ EnumParked
    /\ TestParked
    /\ FetchParked
    /\ LookupParked
    /\ ValidParked
    /\ proc = 1
    /\ entry = "bulk"
    /\ start = 1
    /\ end = CadenceItems
    /\ pc = "cadence"
    /\ skip_invalid \in BOOLEAN
    /\ \E c \in CadenceStarts :
          /\ scraped_count = c[1]
          /\ error_count = c[2]
          /\ lastSaved = c
          /\ progress_file = IF c = <<0, 0>> THEN <<>> ELSE save_progress(c[1], c[2])
    /\ error_log_file = <<>>
    /\ batch_files = <<>>
    /\ batches = <<>>
    /\ batch_idx = 0
    /\ pendingQ = <<>>
    /\ running = {}
    /\ completedQ = <<>>
    /\ batch_data = <<>>
    /\ attempts = <<>>
    /\ outcome = <<>>
    /\ strategies = <<>>
    /\ fetched = <<>>
    /\ runStart = [scraped |-> scraped_count, errors |-> error_count, logLen |-> 0]
    /\ written = {}
    /\ c_left = CadenceItems
    /\ c_since = 0
    /\ c_kept_since = 0

CadenceFrame ==
    /\ UNCHANGED <<proc, entry, start, end, skip_invalid, error_log_file, batch_files,
                   batches, batch_idx, pendingQ, running, completedQ, batch_data,
                   attempts, outcome, strategies, fetched, runStart, written>>
    /\ UNCHANGED <<fetchVars, lookupVars, validVars, lockVars, allVars, enumVars, testVars, robustVars, acVars, nikVars, mgrVars>>

\* lines 143-146: an item is kept
ItemKept ==
    /\ pc = "cadence"
    /\ c_left > 0
    /\ c_left' = c_left - 1
    /\ scraped_count' = IncScraped(scraped_count)
    /\ IF CheckpointDue(scraped_count')
       THEN /\ progress_file' = save_progress(scraped_count', error_count)
            /\ lastSaved' = <<scraped_count', error_count>>
            /\ c_since' = 0
            /\ c_kept_since' = 0
       ELSE /\ UNCHANGED <<progress_file, lastSaved>>
            /\ c_since' = c_since + 1
            /\ c_kept_since' = c_kept_since + 1
    /\ UNCHANGED <<pc, error_count>>
    /\ CadenceFrame

\* lines 127-129: an item is skipped as invalid
ItemDropped ==
    /\ pc = "cadence"
    /\ c_left > 0
    /\ skip_invalid
    /\ c_left' = c_left - 1
    /\ c_since' = c_since + 1
    /\ UNCHANGED <<pc, scraped_count, error_count, progress_file, lastSaved, c_kept_since>>
    /\ CadenceFrame

\* lines 161-166: an item fails
ItemFailed ==
    /\ pc = "cadence"
    /\ c_left > 0
    /\ c_left' = c_left - 1
    /\ error_count' = error_count + 1
    /\ c_since' = c_since + 1
    /\ UNCHANGED <<pc, scraped_count, progress_file, lastSaved, c_kept_since>>
    /\ CadenceFrame

\* line 257: the range is through, scrape_bulk saves the counters
CadenceFinalSave ==
    /\ pc = "cadence"
    /\ c_left = 0
    /\ progress_file' = save_progress(scraped_count, error_count)
    /\ lastSaved' = <<scraped_count, error_count>>
    /\ c_since' = 0
    /\ c_kept_since' = 0
    /\ pc' = "cadence_done"
    /\ UNCHANGED <<scraped_count, error_count, c_left>>
    /\ CadenceFrame

NextCadence ==
    \/ ItemKept
    \/ ItemDropped
    \/ ItemFailed
    \/ CadenceFinalSave

SpecCadence == InitCadence /\ [][NextCadence]_vars

(***************************************************************************)
(* scraper/bulk_scraper.py, lines 143-168 statement by statement: the      *)
(* threads of one batch, each in scrape_single_sutta, and the main thread  *)
(* of scrape_bulk (or scrape_all_nikayas) around them                      *)
(***************************************************************************)
Threads == 1..MaxWorkers

\* a thread between its first statement and its return
Live(t) == th[t].pc \notin {"submitted", "returned"}

LiveThreads == { t \in Threads : Live(t) }

\* a mutation made by who (a thread, or 0: the main thread); it is kept in the
\* history when who does not hold the lock
Mutation(who, what) ==
    IF lock = who /\ who # 0 THEN unlocked
    ELSE unlocked \cup { [what |-> what, live |-> Cardinality(LiveThreads \ {who})] }

\* with self.lock entered whatever the state of the lock
CanAcquireAlways(t) == TRUE

\* with self.lock (lines 143 and 161): threading.Lock.acquire blocks while the
\* lock is held
CanAcquire(t) == lock = 0

\* the counters main.py starts the batch with, and the files of the directory
InitLock ==
    /\ AllParked
    /\ ManagerParked
    /\ NikayaParked
    /\ AsCompletedParked
    /\ RobustParked
    /\ CadParked
    /\ TestParked
    /\ EnumParked
    /\ FetchParked
    /\ LookupParked
    /\ ValidParked
    /\ proc = 1
    /\ entry \in {"bulk", "all"}
    /\ start = 1
    /\ end = 0
    /\ pc = IF entry = "all" THEN "all_reset" ELSE "batch"
    /\ skip_invalid \in BOOLEAN
    /\ \E f \in {NoFiles, PriorFiles} :
          /\ progress_file = f.progress
          /\ error_log_file = f.errors
          /\ batch_files = f.batches
          /\ lastSaved = f.saved
          /\ scraped_count = f.saved[1]
          /\ error_count = f.saved[2]
          /\ runStart = [scraped |-> f.saved[1], errors |-> f.saved[2],
                         logLen |-> Len(f.errors)]
    /\ batches = <<>>
    /\ batch_idx = 0
    /\ pendingQ = <<>>
    /\ running = {}
    /\ completedQ = <<>>
    /\ batch_data = <<>>
    /\ attempts = <<>>
    /\ outcome = <<>>
    /\ strategies = <<>>
    /\ fetched = <<>>
    /\ written = {}
    /\ lock = 0
    /\ th = [t \in Threads |->
                [pc |-> "submitted", tmp |-> 0, errors |-> <<>>, route |-> "none"]]
    /\ unlocked = {}

LockFrame ==
    UNCHANGED <<proc, entry, start, end, skip_invalid, batch_files, batches, batch_idx,
                pendingQ, running, completedQ, batch_data, attempts, outcome,
                strategies, fetched, written, fetchVars, lookupVars, validVars, allVars, enumVars, testVars, cadVars, robustVars, acVars, nikVars, mgrVars>>

\* scrape_all_nikayas, lines 318-320: the counters reset before the collection
M_Reset ==
    /\ pc = "all_reset"
    /\ scraped_count' = 0
    /\ error_count' = 0
    /\ unlocked' = Mutation(0, "reset")
    /\ runStart' = [runStart EXCEPT !.scraped = 0, !.errors = 0]
    /\ pc' = "batch"
    /\ LockFrame
    /\ UNCHANGED <<progress_file, error_log_file, lastSaved, lock, th>>

\* lines 103-129: the page is fetched and routed
T_Fetch(t) ==
    /\ pc = "batch"
    /\ th[t].pc = "submitted"
    /\ \E page \in Pages :
          th' = [th EXCEPT ![t].route = ScrapeRoute(page, skip_invalid),
                           ![t].pc =
                    CASE ScrapeRoute(page, skip_invalid) = "kept" -> "lock_kept"
                      [] ScrapeRoute(page, skip_invalid) = "failed" -> "lock_failed"
                      [] OTHER -> "returned"]
    /\ LockFrame
    /\ UNCHANGED <<pc, scraped_count, error_count, progress_file, error_log_file,
                   lastSaved, runStart, lock, unlocked>>

\* lines 143 and 161: with self.lock
T_Acquire(t) ==
    /\ th[t].pc \in {"lock_kept", "lock_failed"}
    /\ CanAcquire(t)
    /\ lock' = t
    /\ th' = [th EXCEPT ![t].pc = IF @ = "lock_kept" THEN "read_scraped" ELSE "read_errors"]
    /\ LockFrame
    /\ UNCHANGED <<pc, scraped_count, error_count, progress_file, error_log_file,
                   lastSaved, runStart, unlocked>>

\* line 144, self.scraped_count += 1: the attribute is loaded
T_ReadScraped(t) ==
    /\ th[t].pc = "read_scraped"
    /\ th' = [th EXCEPT ![t].pc = "write_scraped", ![t].tmp = scraped_count]
    /\ LockFrame
    /\ UNCHANGED <<pc, scraped_count, error_count, progress_file, error_log_file,
                   lastSaved, runStart, lock, unlocked>>

\* line 144, self.scraped_count += 1: the sum is stored
T_WriteScraped(t) ==
    /\ th[t].pc = "write_scraped"
    /\ scraped_count' = IncScraped(th[t].tmp)
    /\ unlocked' = Mutation(t, "scraped_count")
    /\ th' = [th EXCEPT ![t].pc = "checkpoint"]
    /\ LockFrame
    /\ UNCHANGED <<pc, error_count, progress_file, error_log_file, lastSaved,
                   runStart, lock>>

\* lines 145-146: save_progress on every tenth record
T_Checkpoint(t) ==
    /\ th[t].pc = "checkpoint"
    /\ IF scraped_count % CheckpointEvery = 0
       THEN /\ progress_file' = save_progress(scraped_count, error_count)
            /\ lastSaved' = <<scraped_count, error_count>>
            /\ unlocked' = Mutation(t, "checkpoint")
       ELSE UNCHANGED <<progress_file, lastSaved, unlocked>>
    /\ th' = [th EXCEPT ![t].pc = "unlock"]
    /\ LockFrame
    /\ UNCHANGED <<pc, scraped_count, error_count, error_log_file, runStart, lock>>

\* line 162, self.error_count += 1: the attribute is loaded
T_ReadErrors(t) ==
    /\ th[t].pc = "read_errors"
    /\ th' = [th EXCEPT ![t].pc = "write_errors", ![t].tmp = error_count]
    /\ LockFrame
    /\ UNCHANGED <<pc, scraped_count, error_count, progress_file, error_log_file,
                   lastSaved, runStart, lock, unlocked>>

\* line 162, self.error_count += 1: the sum is stored
T_WriteErrors(t) ==
    /\ th[t].pc = "write_errors"
    /\ error_count' = th[t].tmp + 1
    /\ unlocked' = Mutation(t, "error_count")
    /\ th' = [th EXCEPT ![t].pc = "log_read"]
    /\ LockFrame
    /\ UNCHANGED <<pc, scraped_count, progress_file, error_log_file, lastSaved,
                   runStart, lock>>

\* log_error, lines 173-177: the list is loaded from error_log.json
T_LogRead(t) ==
    /\ th[t].pc = "log_read"
    /\ th' = [th EXCEPT ![t].pc = "log_write", ![t].errors = error_log_file]
    /\ LockFrame
    /\ UNCHANGED <<pc, scraped_count, error_count, progress_file, error_log_file,
                   lastSaved, runStart, lock, unlocked>>

\* log_error, lines 179-182: the entry is appended and the file rewritten
T_LogWrite(t) ==
    /\ th[t].pc = "log_write"
    /\ error_log_file' = log_error(th[t].errors, ErrorInfo(t))
    /\ unlocked' = Mutation(t, "error_log")
    /\ th' = [th EXCEPT ![t].pc = "unlock"]
    /\ LockFrame
    /\ UNCHANGED <<pc, scraped_count, error_count, progress_file, lastSaved,
                   runStart, lock>>

\* the with block is left (lines 150 and 166): the lock is released
T_Release(t) ==
    /\ th[t].pc = "unlock"
    /\ lock' = 0
    /\ th' = [th EXCEPT ![t].pc = "returned"]
    /\ LockFrame
    /\ UNCHANGED <<pc, scraped_count, error_count, progress_file, error_log_file,
                   lastSaved, runStart, unlocked>>

\* scrape_bulk, lines 239-257: the pool has drained; the final save_progress
M_FinalSave ==
    /\ pc = "batch"
    /\ \A t \in Threads : th[t].pc = "returned"
    /\ progress_file' = save_progress(scraped_count, error_count)
    /\ lastSaved' = <<scraped_count, error_count>>
    /\ unlocked' = Mutation(0, "final_checkpoint")
    /\ pc' = "done"
    /\ LockFrame
    /\ UNCHANGED <<scraped_count, error_count, error_log_file, runStart, lock, th>>

NextLock ==
    \/ M_Reset
    \/ \E t \in Threads : T_Fetch(t)
    \/ \E t \in Threads : T_Acquire(t)
    \/ \E t \in Threads : T_ReadScraped(t)
    \/ \E t \in Threads : T_WriteScraped(t)
    \/ \E t \in Threads : T_Checkpoint(t)
    \/ \E t \in Threads : T_ReadErrors(t)
    \/ \E t \in Threads : T_WriteErrors(t)
    \/ \E t \in Threads : T_LogRead(t)
    \/ \E t \in Threads : T_LogWrite(t)
    \/ \E t \in Threads : T_Release(t)
    \/ M_FinalSave

SpecLock == InitLock /\ [][NextLock]_vars

(***************************************************************************)
(* What one scrape_bulk call left behind                                   *)
(***************************************************************************)
RECURSIVE RecordsUpTo(_)
\* the records of the batch files written by this call, files 1..k in order
RecordsUpTo(k) ==
    IF k = 0 THEN <<>>
    ELSE RecordsUpTo(k - 1) \o (IF k \in written THEN batch_files[k] ELSE <<>>)

RunRecords == RecordsUpTo(Len(batches))

\* the error-log entries appended by this call
RunErrors == SubSeq(error_log_file, runStart.logLen + 1, Len(error_log_file))

InBatchFile(i) == \E k \in 1..Len(RunRecords) : RunRecords[k].sutta_number = i

InErrorLog(i) == \E k \in 1..Len(RunErrors) : RunErrors[k].url = i

DroppedByPolicy(i) == skip_invalid /\ outcome[i] = "dropped"

BoolCount(b) == IF b THEN 1 ELSE 0

C3_CountEqualsRecords ==
    (pc = "done" /\ ~skip_invalid) => scraped_count = Len(RunRecords)

(***************************************************************************)
(* C4: resume_from_progress on a new orchestrator restores exactly the     *)
(* counters the last save_progress wrote to the checkpoint file, and the   *)
(* scrape_bulk that follows attempts every identifier of its range.        *)
(***************************************************************************)
C4_CheckpointRoundTrip ==
    /\ (pc = "ready" /\ entry = "bulk" /\ progress_file # <<>>) =>
           <<scraped_count, error_count>> = lastSaved
    /\ (pc = "done" /\ entry = "bulk") => \A i \in Ids : attempts[i] = 1

\* the second process restored the counters the first one saved (two digits,
\* with errors) and its scrape_bulk has ended
C4_Witness ==
    /\ proc = 2
    /\ pc = "done"
    /\ runStart.scraped >= 10
    /\ runStart.errors > 0
    /\ \A i \in Ids : attempts[i] = 1

(***************************************************************************)
(* C6 as stated: for every identifier the orchestrator fetches, rendered   *)
(* fetch is tried first and static fetch is attempted only after rendered  *)
(* fetch was tried (and was unavailable or failed).                        *)
(***************************************************************************)
C6_RenderedBeforeStatic ==
    \A i \in Ids :
        \A k \in 1..Len(strategies[i]) :
            strategies[i][k] = "static" =>
                \E j \in 1..(k - 1) : strategies[i][j] = "rendered"

(***************************************************************************)
(* C5: when the rendered fetch raised or reported an error (every          *)
(* navigation up to its retry budget failed, or no session could be had),  *)
(* scrape_tripitaka_page_with_retry returns the record of the static fetch,*)
(* marked as static, and no exception reaches the caller; a record is      *)
(* marked static exactly when the static fetch produced it.                *)
(***************************************************************************)
C5_FallbackToStatic ==
    \A w \in Fetchers :
        /\ fw[w].pc # "raised"
        /\ fw[w].pc = "returned" =>
              /\ fw[w].rendered \in {"error", "raised"} => fw[w].served = "static"
              /\ FetchMethod(fw[w].result) = fw[w].served

\* every navigation of the retry budget raised and the static record was returned
C5_Witness ==
    \E w \in Fetchers :
        /\ fw[w].pc = "returned"
        /\ fw[w].navFails = max_page_retries + 1
        /\ fw[w].rendered = "error"
        /\ fw[w].result = FallbackRecord

(***************************************************************************)
(* C7: for every two adjacent ranges of the table, the last identifier of  *)
(* the first and the first identifier of the second resolve to their own,  *)
(* distinct collections; an identifier below the first start or above the  *)
(* last end resolves to None.                                              *)
(***************************************************************************)
C7_BoundaryLookup ==
    lk_pc = "done" =>
        /\ \A k \in 1..(Len(NIKAYA_RANGES) - 1) :
              /\ NIKAYA_RANGES[k].key # NIKAYA_RANGES[k + 1].key
              /\ lk_in = NIKAYA_RANGES[k].end => lk_out = NIKAYA_RANGES[k]
              /\ lk_in = NIKAYA_RANGES[k + 1].start => lk_out = NIKAYA_RANGES[k + 1]
        /\ (lk_in < NIKAYA_RANGES[1].start
               \/ lk_in > NIKAYA_RANGES[Len(NIKAYA_RANGES)].end) => lk_out = NoneInfo

\* the last identifier of digha has been looked up
C7_Witness ==
    /\ lk_pc = "done"
    /\ lk_in = NIKAYA_RANGES[1].end
    /\ lk_out.key = "digha"

(***************************************************************************)
(* C8: every range of the table has start <= end, each range starts right  *)
(* after the previous one ends, and the identifier looked up lies in at    *)
(* most one range.                                                         *)
(***************************************************************************)
C8_RangesContiguous ==
    /\ \A k \in 1..Len(NIKAYA_RANGES) : NIKAYA_RANGES[k].start <= NIKAYA_RANGES[k].end
    /\ \A k \in 1..(Len(NIKAYA_RANGES) - 1) :
          NIKAYA_RANGES[k + 1].start = NIKAYA_RANGES[k].end + 1
    /\ Cardinality({ k \in 1..Len(NIKAYA_RANGES) : InNikaya(NIKAYA_RANGES[k], lk_in) }) <= 1

\* the first identifier of majjhima, next to the end of digha, lies in one range
C8_Witness ==
    /\ lk_pc = "done"
    /\ lk_in = NIKAYA_RANGES[1].end + 1
    /\ Cardinality({ k \in 1..Len(NIKAYA_RANGES) : InNikaya(NIKAYA_RANGES[k], lk_in) }) = 1

(***************************************************************************)
(* Content Validator claims                                                *)
(***************************************************************************)
ValidatorDone == v_pc = "done"

Accepted == v_out \in AcceptingReturns

ValidTitle == ~TitleIsPlaceholder(v_title)

\* len(total_content) > 2000 and one genuine-content phrase at least
LongWithGenuine ==
    /\ StrLen(v_sinhala) + StrLen(v_pali) > LongContentChars
    /\ tripitaka_indicators_found(v_sinhala, v_pali) # {}

\* the text "a a a a a a a a a a a" alone
ElevenAs ==
    /\ v_sinhala.chunks = << [toks |-> <<"a">>, n |-> 11] >>
    /\ v_pali.chunks = <<>>

ExtremelyRepetitive ==
    /\ LineCount(v_sinhala, v_pali) > MinTokens
    /\ RatioBelowStrict(v_sinhala, v_pali)

\* C9 as stated: "a a a a a a a a a a a" is rejected, and every text of
\* length > 2000 with a genuine-content phrase and a valid title is accepted
\* regardless of its repetition ratio.
C9_LongGenuineAlwaysAccepted ==
    ValidatorDone =>
        /\ ElevenAs => ~Accepted
        /\ (LongWithGenuine /\ ValidTitle) => Accepted

\* C9, amended: "a a a a a a a a a a a" is rejected; a text of length > 2000
\* with a genuine-content phrase and a valid title is accepted exactly when
\* at least 500 characters remain after stripping and it is not the case that
\* it has more than 10 tokens with a repetition ratio below 0.03; a ratio
\* below 0.3 never rejects such a text.
C9_LongGenuineAcceptedUnlessExtreme ==
    ValidatorDone =>
        /\ ElevenAs => ~Accepted
        /\ (LongWithGenuine /\ ValidTitle) =>
              /\ Accepted <=>
                    /\ StrippedTotalLen(v_sinhala, v_pali) >= MinContentChars
                    /\ ~ExtremelyRepetitive
              /\ v_out # "short_repetition"
              /\ Accepted => v_out = "valid_with_indicators"

\* a long text with a genuine-content phrase, more than 10 tokens and a ratio
\* below 0.3 has been accepted
C9_Witness ==
    /\ ValidatorDone
    /\ LongWithGenuine
    /\ ValidTitle
    /\ LineCount(v_sinhala, v_pali) > MinTokens
    /\ RatioBelowLenient(v_sinhala, v_pali)
    /\ Accepted

\* C10: a text of at least 500 characters in which (the two texts joined by a
\* blank) two boilerplate phrases and no genuine-content phrase are found is
\* rejected, by the empty page test when its title is valid and 500
\* characters remain after stripping; with a genuine-content phrase found the
\* empty page test does not reject it and one of the later rules returns.
C10_BoilerplateRule ==
    (/\ ValidatorDone
     /\ StrLen(v_sinhala) + StrLen(v_pali) >= MinContentChars
     /\ Cardinality(empty_indicators_found(v_sinhala, v_pali)) >= 2) =>
        LET reachesRule ==
                /\ ValidTitle
                /\ StrippedTotalLen(v_sinhala, v_pali) >= MinContentChars
        IN  IF tripitaka_indicators_found(v_sinhala, v_pali) = {}
            THEN /\ ~Accepted
                 /\ reachesRule => v_out = "empty_page"
            ELSE /\ v_out # "empty_page"
                 /\ reachesRule =>
                       v_out \in {"short_repetition", "extreme_repetition",
                                  "valid_with_indicators", "valid"}

\* two boilerplate phrases and one genuine-content phrase: the text went past
\* the empty page test and was accepted
C10_Witness ==
    /\ ValidatorDone
    /\ ValidTitle
    /\ StrippedTotalLen(v_sinhala, v_pali) >= MinContentChars
    /\ Cardinality(empty_indicators_found(v_sinhala, v_pali)) >= 2
    /\ Cardinality(tripitaka_indicators_found(v_sinhala, v_pali)) = 1
    /\ v_out = "valid"

(***************************************************************************)
(* Batches in order                                                        *)
(***************************************************************************)
SeqToSet(q) == { q[k] : k \in 1..Len(q) }

\* the batch an identifier was put in (line 219)
BatchOf(i) == CHOOSE j \in 1..Len(batches) : i \in SeqToSet(batches[j])

\* the loop of line 223 is past batch j
BatchPassed(j) == pc \in {"summary", "done"} \/ (pc = "batch" /\ j < batch_idx)

KeptOf(j) == { i \in SeqToSet(batches[j]) : outcome[i] = "kept" }

\* C12: no worker of a batch is started before the loop reached that batch;
\* once the loop is past a batch every worker of it has finished and its file
\* (if any record was kept) is written with exactly the kept records; a file
\* is written only when all workers of its batch have finished; the one live
\* buffer holds records of the current batch only, at most batch_size.
C12_BatchesInOrder ==
    pc \in {"batch", "summary", "done"} =>
        /\ \A i \in Ids : attempts[i] > 0 => BatchOf(i) <= batch_idx
        /\ \A j \in 1..Len(batches) :
              /\ BatchPassed(j) =>
                    /\ \A i \in SeqToSet(batches[j]) :
                          attempts[i] = 1 /\ outcome[i] # "none" /\ i \notin running
                    /\ KeptOf(j) # {} => j \in written
              /\ j \in written =>
                    /\ BatchPassed(j)
                    /\ { batch_files[j][k].sutta_number : k \in 1..Len(batch_files[j]) }
                          = KeptOf(j)
                    /\ Len(batch_files[j]) = Cardinality(KeptOf(j))
        /\ Len(batch_data) + Len(completedQ) + Cardinality(running) + Len(pendingQ)
              <= BatchSize
        /\ \A k \in 1..Len(batch_data) :
              pc = "batch" /\ BatchOf(batch_data[k].sutta_number) = batch_idx

\* the workers of the second batch run and the file of the first is written
C12_Witness ==
    /\ pc = "batch"
    /\ batch_idx = 2
    /\ running # {}
    /\ 1 \in written

(***************************************************************************)
(* The mutex                                                               *)
(***************************************************************************)
Drained == th # <<>> /\ \A t \in Threads : th[t].pc = "returned"

Routed(r) == Cardinality({ t \in Threads : th[t].route = r })

\* every kept record and every failure is in the counters and in the log
NoUpdateLost ==
    /\ scraped_count = runStart.scraped + Routed("kept")
    /\ error_count = runStart.errors + Routed("failed")
    /\ Len(error_log_file) = runStart.logLen + Routed("failed")

\* C13 as stated: every mutation of the counters, the checkpoint file and the
\* error log is made while self.lock is held, and when the batch has drained
\* the counters have grown by the number of kept and of failed identifiers.
C13_AllMutationsLocked ==
    /\ unlocked = {}
    /\ Drained => NoUpdateLost

\* C13, amended: every mutation made by a worker thread is made while
\* self.lock is held; the final save_progress of scrape_bulk and the reset of
\* the counters in scrape_all_nikayas are made without the lock, by the main
\* thread while no worker thread is running; when the batch has drained no
\* increment and no error-log entry is lost.
C13_WorkerMutationsLocked ==
    /\ \A m \in unlocked : m.what \in {"final_checkpoint", "reset"} /\ m.live = 0
    /\ Drained => NoUpdateLost

\* two threads kept a record, one failed or the checkpoint was written, and
\* the main thread made its final save
C13_Witness ==
    /\ pc = "done"
    /\ Drained
    /\ Routed("kept") + Routed("failed") >= 2
    /\ \E m \in unlocked : m.what = "final_checkpoint"

(***************************************************************************)
(* The shared session                                                      *)
(***************************************************************************)
\* thread w has navigated session d (driver.get returned, line 121 or 136)
\* and has not read driver.page_source (line 140) yet
NavigationOpen(w, d) == fw[w].pc = "parse" /\ fw[w].driver = d

\* C14: no two navigations are in flight at the same time on one session: no
\* thread navigates a session between another thread's navigation of that
\* session and its reading of the markup.
C14_NavigationsSerialized ==
    \A w1, w2 \in DOMAIN fw :
        \A d \in 1..f_sessions :
            (NavigationOpen(w1, d) /\ NavigationOpen(w2, d)) => w1 = w2


(***************************************************************************)
(* C15 as stated: once an interrupt has arrived during a batch, no fetch   *)
(* that had not started is started: the identifiers of the batch that were *)
(* still queued, and those of every later batch, are never fetched.        *)
(***************************************************************************)
C15_NoFetchStartsAfterInterrupt ==
    [][(pc \in {"draining", "interrupted"}) => (attempts' = attempts)]_vars

(***************************************************************************)
(* C16 as stated: an interrupted run leaves valid batch files and a valid  *)
(* checkpoint file holding the last saved counters, and every record the   *)
(* checkpoint's scraped_count accounts for is in some batch file.          *)
(***************************************************************************)
RECURSIVE RecordsInFiles(_)
RecordsInFiles(k) ==
    IF k = 0 THEN 0
    ELSE RecordsInFiles(k - 1) +
         (IF ValidJson(batch_files[k]) THEN Len(batch_files[k]) ELSE 0)

CheckpointScraped ==
    IF progress_file = <<>> THEN 0 ELSE json_load_int(progress_file[1].scraped_count)

C16_InterruptLeavesConsistentFiles ==
    pc = "interrupted" =>
        /\ \A k \in DOMAIN batch_files : ValidJson(batch_files[k])
        /\ ValidJson(progress_file)
        /\ progress_file # <<>> => progress_file = save_progress(lastSaved[1], lastSaved[2])
        /\ CheckpointScraped <= RecordsInFiles(Len(batch_files))

(***************************************************************************)
(* C17: a failure while one identifier is processed stays with that        *)
(* identifier: scrape_single_sutta catches it, appends exactly one entry   *)
(* to the error log, adds one to error_count, keeps the identifier out of  *)
(* the batch, and the pool goes on to attempt every other identifier.      *)
(***************************************************************************)
FailedIds == {i \in Ids : outcome[i] = "failed"}

LogEntriesOf(i) == {k \in 1..Len(RunErrors) : RunErrors[k].url = i}

InBuffer(i) ==
    \/ \E k \in 1..Len(batch_data) : batch_data[k].sutta_number = i
    \/ \E k \in 1..Len(completedQ) :
          completedQ[k] # <<>> /\ completedQ[k][1].sutta_number = i

KeptIds == {i \in Ids : outcome[i] = "kept"}

\* scrape_page returned a page (not its error return) that it marked invalid
Rejected(i) ==
    /\ outcome[i] # "none"
    /\ ~fetched[i].error
    /\ ~fetched[i].is_valid_content

HasText(i) == fetched[i].sinhala # "" \/ fetched[i].pali # ""

KeptAsInvalid(i) ==
    \E k \in 1..Len(RunRecords) :
        RunRecords[k].sutta_number = i /\ ~RunRecords[k].is_valid_content

RejectionRouted(i) ==
    /\ ~InErrorLog(i)
    /\ outcome[i] = (IF skip_invalid THEN "dropped" ELSE "kept")
    /\ skip_invalid => ~InBatchFile(i) /\ ~InBuffer(i)
    /\ (~skip_invalid /\ pc = "done") => KeptAsInvalid(i)

CountersFollowOutcomes ==
    /\ scraped_count - runStart.scraped = Cardinality(KeptIds)
    /\ error_count - runStart.errors = Cardinality(FailedIds)

C19_LaterCollectionsAttempted ==
    /\ pc # "all_crashed"
    /\ pc = "all_finished" => all_idx = Len(nikaya_order)

(***************************************************************************)
(* C20 as stated: the counters are zero when a collection starts, and the  *)
(* overall totals are the sums of the scraped and error counts of every    *)
(* collection processed, those of a collection that failed partway         *)
(* included.                                                               *)
(***************************************************************************)
RECURSIVE SumLog(_, _)
SumLog(log, field) ==
    IF log = <<>> THEN 0
    ELSE log[1][field] + SumLog(Tail(log), field)

C20_TotalsSumEveryCollection ==
    /\ (entry = "all" /\ pc = "ready") => (scraped_count = 0 /\ error_count = 0)
    /\ (entry = "all" /\ pc \in {"all_loop", "all_finished"}) =>
          /\ overall_scraped = SumLog(all_log, "scraped")
          /\ overall_errors = SumLog(all_log, "errors")

(***************************************************************************)
(* C21: get_sutta_urls(start, end) returns the identifiers start..end,     *)
(* each once and in ascending order, and nothing when start > end; with    *)
(* end left None the end is the largest end of the collection ranges plus  *)
(* the buffer of 1000, or 100000 when that is smaller.                     *)
(***************************************************************************)
LargestEnd ==
    CHOOSE m \in {NIKAYA_RANGES[k].end : k \in DOMAIN NIKAYA_RANGES} :
        \A k \in DOMAIN NIKAYA_RANGES : NIKAYA_RANGES[k].end <= m

C21_ClosedInterval ==
    e_pc = "done" =>
        LET last == IF e_end.given THEN e_end.value
                    ELSE IF LargestEnd + 1000 > 100000 THEN 100000 ELSE LargestEnd + 1000
        IN  /\ Len(e_urls) = (IF e_start > last THEN 0 ELSE last - e_start + 1)
            /\ \A k \in 1..Len(e_urls) : e_urls[k] = e_start + k - 1

\* a call with end left None has returned several identifiers
C21_Witness ==
    /\ e_pc = "done"
    /\ ~e_end.given
    /\ Len(e_urls) >= 2

(***************************************************************************)
(* C22: the chunks scrape_bulk makes are consecutive pieces of the         *)
(* identifier sequence: put end to end they give start..end, no identifier *)
(* is in two of them, each has batch_size identifiers except possibly the  *)
(* last (which has at least one); a batch file holds only records of       *)
(* identifiers of its chunk.                                               *)
(***************************************************************************)
RECURSIVE Flatten(_)
Flatten(chunks) ==
    IF chunks = <<>> THEN <<>> ELSE Head(chunks) \o Flatten(Tail(chunks))

C22_ChunksPartitionSequence ==
    pc \in {"batch", "summary", "done"} =>
        /\ Flatten(batches) = [k \in 1..(end - start + 1) |-> start + k - 1]
        /\ \A j \in 1..Len(batches) :
              /\ Len(batches[j]) >= 1
              /\ Len(batches[j]) <= BatchSize
              /\ j < Len(batches) => Len(batches[j]) = BatchSize
        /\ \A j, l \in 1..Len(batches) :
              j # l => SeqToSet(batches[j]) \cap SeqToSet(batches[l]) = {}
        /\ \A j \in written : \A k \in 1..Len(batch_files[j]) :
              batch_files[j][k].sutta_number \in SeqToSet(batches[j])

\* a run has ended that wrote a full chunk and a shorter last chunk
C22_Witness ==
    /\ pc = "done"
    /\ Len(batches) >= 2
    /\ Len(batches[Len(batches)]) < BatchSize
    /\ written = 1..Len(batches)

(***************************************************************************)
(* C23 as stated: in one output directory no flushed batch is overwritten  *)
(* by another: the file a scrape_bulk call wrote for a batch holds the     *)
(* records of that batch, and it still holds them after every later        *)
(* scrape_bulk call of the same orchestrator on the directory.             *)
(***************************************************************************)
C23_NoBatchOverwritten ==
    entry = "test" =>
        /\ pc \in {"batch", "summary", "done"} =>
              \A j \in written :
                  { batch_files[j][k].sutta_number : k \in 1..Len(batch_files[j]) }
                      = KeptOf(j)
        /\ \A c \in 1..Len(t_log) : \A j \in DOMAIN t_log[c] :
              batch_files[j] = t_log[c][j]

(***************************************************************************)
(* C24 as stated: when no fetch strategy works from the start (every call  *)
(* of scrape_page ends in its error return), the run aborts before it      *)
(* goes through the range: scrape_bulk never reaches its summary with      *)
(* every identifier fetched in vain and written to the error log.          *)
(***************************************************************************)
C24_AbortsWithoutStrategy ==
    pc \in {"summary", "done"} =>
        \E i \in Ids : outcome[i] # "none" /\ ~(fetched[i].error /\ InErrorLog(i))

(***************************************************************************)
(* C25 as stated: the checkpoint is written at every tenth item that       *)
(* reaches a terminal state (kept, dropped or failed), so fewer than ten   *)
(* items have ended since the last write of the checkpoint at any moment,  *)
(* also after failures and after a resume.                                 *)
(***************************************************************************)
C25_WriteEveryTenthItem ==
    pc = "cadence" => c_since < CheckpointEvery

(***************************************************************************)
(* C25 amended: the checkpoint is written when a kept item brings          *)
(* scraped_count to a multiple of ten (and when scrape_bulk ends), so      *)
(* fewer than ten items were kept since the last write; failed and         *)
(* dropped items do not count towards it.  The checkpoint file holds the   *)
(* counters as they were at that write.                                    *)
(***************************************************************************)
C25_WriteEveryTenthKept ==
    pc \in {"cadence", "cadence_done"} =>
        /\ c_kept_since < CheckpointEvery
        /\ scraped_count - lastSaved[1] = c_kept_since
        /\ CheckpointDue(scraped_count) =>
              (c_kept_since = 0 /\ (c_since = 0 \/ lastSaved[1] = scraped_count))
        /\ progress_file # <<>> => RestoredCounters(progress_file[1]) = lastSaved

\* after a resume, ten items or more have ended since the last write, one of
\* them kept, and failures among them
C25_Witness ==
    /\ pc = "cadence"
    /\ runStart.scraped > 0
    /\ c_since >= CheckpointEvery
    /\ c_kept_since > 0
    /\ error_count > runStart.errors


(***************************************************************************)
(* C26 - C28: the rules of the validator in order                          *)
(***************************************************************************)
\* the title, blanks around it aside, is empty or one of the two placeholders
PlaceholderTitleGiven == v_title.core \in {"", "tripitaka.online", "Untitled"}

\* C26: whenever the title is empty or a placeholder (blanks around it
\* aside), the validator rejects at the title test, whatever the two texts
\* are: however long, with however many genuine-content phrases.
C26_TitleRuleDecidesFirst ==
    (ValidatorDone /\ PlaceholderTitleGiven) => v_out = "invalid_title"

\* a placeholder title with a long text holding a genuine-content phrase, which
\* every later rule would accept, has been rejected
C26_Witness ==
    /\ ValidatorDone
    /\ PlaceholderTitleGiven
    /\ LongWithGenuine
    /\ LaterRules(v_sinhala, v_pali) = "valid_with_indicators"
    /\ StrippedTotalLen(v_sinhala, v_pali) >= MinContentChars
    /\ ~Accepted

\* the input went past the title test, the length test and the empty page test
PassesRules1To3 ==
    /\ ValidTitle
    /\ StrippedTotalLen(v_sinhala, v_pali) >= MinContentChars
    /\ ~EmptyPageRule(v_sinhala, v_pali)

\* rule 4 as written: the ratio distinct tokens / tokens of the combined text
\* is below 0.3 with the text shorter than 2000 characters, or below 0.03
Rule4Rejects(s, p) ==
    /\ LineCount(s, p) > 0
    /\ \/ RatioBelowLenient(s, p) /\ CheckedLen(s, p) < ShortContentChars
       \/ RatioBelowStrict(s, p)

\* C27 as stated: every input that passes rules 1-3 and whose repetition
\* ratio is below 0.3 with fewer than 2000 characters, or below 0.03, is
\* rejected, whatever its number of tokens, ten or fewer included.
C27_RepetitionRuleEveryTokenCount ==
    (ValidatorDone /\ PassesRules1To3 /\ Rule4Rejects(v_sinhala, v_pali)) =>
        ~Accepted

\* the decision list: rule 1, else rule 2, else rule 3, else rule 4, else
\* accept
ReferenceAccepts(s, p, title) ==
    IF title.core \in {"", "tripitaka.online", "Untitled"} THEN FALSE
    ELSE IF StrippedTotalLen(s, p) < MinContentChars THEN FALSE
    ELSE IF /\ Cardinality(empty_indicators_found(s, p)) >= 2
            /\ tripitaka_indicators_found(s, p) = {}
         THEN FALSE
    ELSE IF Rule4Rejects(s, p) THEN FALSE
    ELSE TRUE

\* C28 as stated: on every input the validator accepts exactly when the
\* decision list accepts: reject by rule 1, else by rule 2, else by rule 3,
\* else by rule 4, else accept; a long text with no genuine-content phrase
\* that passes rules 1-4 is accepted.
C28_EqualsDecisionList ==
    ValidatorDone =>
        (Accepted <=> ReferenceAccepts(v_sinhala, v_pali, v_title))


(***************************************************************************)
(* C29, C30: the session a navigation is issued on                         *)
(***************************************************************************)
\* thread w issues driver.get(url) in this step: line 121 or line 136
Navigates(w) ==
    /\ fw[w].pc \in {"nav", "lastnav"}
    /\ fw'[w] # fw[w]

\* restart_if_needed of thread w finds the probe of line 80 raising in this step
ProbeFails(w) ==
    /\ fw[w].pc = "restart"
    /\ fw'[w].pc = "reacquire"
    /\ f_driver # 0
    /\ ~f_alive

\* C29 as stated: every navigation is issued on the session the manager
\* holds, and that session has answered a probe (or was created) after the
\* last navigation on it; a probe that fails ends with the session torn down
\* and replaced (or none held) before the thread navigates again.
C29_ProbedBeforeEveryReuse ==
    [][\A w \in Fetchers :
          /\ Navigates(w) => (fw[w].driver = f_driver /\ f_probed)
          /\ ProbeFails(w) => (f_driver' # f_driver /\ f_probed' = (f_driver' # 0))]_vars

\* C30 as stated: once a navigation of a call has raised on a session, no
\* later navigation of that call is issued on the same session.
C30_NoRetryOnFailedSession ==
    [][\A w \in Fetchers :
          Navigates(w) => (fw[w].driver \notin fw[w].failedOn)]_vars

(***************************************************************************)
(* scraper/robust_webdriver.py: RobustWebDriver.create_driver, next to one *)
(* thread going through scrape_tripitaka_page_with_retry                   *)
(***************************************************************************)
\* the default of max_retries
CreateRetries == 3

\* the statement of the try block that raises: line 84, line 87 or lines 93-94
CreateStages == {"install", "chrome", "timeouts"}

\* self.driver and self.service when that statement has raised, the fields
\* being None when the attempt began
AfterStage(stage) ==
    [driver |-> stage = "timeouts", service |-> stage \in {"chrome", "timeouts"}]

\* cleanup that quits the driver and forgets it, and leaves the service
RobustCleanupDriverOnly(fields) == [fields EXCEPT !.driver = FALSE]

\* RobustWebDriver.cleanup, lines 244-259: quit and stop, whatever they raise,
\* then both fields are None
RobustCleanup(fields) == [driver |-> FALSE, service |-> FALSE]

\* lines 73-97: the attempt goes through and the driver is returned
CreateAttemptOk ==
    /\ r_pc = "loop"
    /\ r_tries' = r_tries + 1
    /\ r_driver' = TRUE
    /\ r_service' = TRUE
    /\ r_pc' = "returned"
    /\ UNCHANGED <<r_max, r_attempt>>
    /\ UNCHANGED <<orchVars, fetchVars, lookupVars, validVars, lockVars, allVars,
                   enumVars, testVars, cadVars, acVars, nikVars, mgrVars>>

\* lines 99-109: a statement of the attempt raises; cleanup, then the raise of
\* line 106 on the last attempt, or the next attempt
CreateAttemptFail ==
    /\ r_pc = "loop"
    /\ \E stage \in CreateStages :
          LET left == RobustCleanup(AfterStage(stage)) IN
              /\ r_driver' = left.driver
              /\ r_service' = left.service
    /\ r_tries' = r_tries + 1
    /\ IF r_attempt = r_max - 1
       THEN r_pc' = "raised" /\ UNCHANGED r_attempt
       ELSE r_pc' = "loop" /\ r_attempt' = r_attempt + 1
    /\ UNCHANGED r_max
    /\ UNCHANGED <<orchVars, fetchVars, lookupVars, validVars, lockVars, allVars,
                   enumVars, testVars, cadVars, acVars, nikVars, mgrVars>>

\* the thread followed through the chain
FirstFetcher == CHOOSE w \in Fetchers : \A v \in Fetchers : w <= v

\* a RobustWebDriver fresh from __init__ enters create_driver(max_retries);
\* persistent_webdriver.py has been imported as in InitFetch
InitRecreate ==
    /\ LockParked
    /\ AllParked
    /\ ManagerParked
    /\ NikayaParked
    /\ AsCompletedParked
    /\ CadParked
    /\ TestParked
    /\ EnumParked
    /\ OrchParked
    /\ LookupParked
    /\ ValidParked
    /\ AsCompletedParked
    /\ \E ok \in BOOLEAN :
          /\ f_driver = (IF ok THEN 1 ELSE 0)
          /\ f_alive = ok
          /\ f_sessions = (IF ok THEN 1 ELSE 0)
          /\ f_probed = ok
    /\ f_calls = 0
    /\ fw = [w \in Fetchers |-> FetchIdle]
    /\ r_pc = "loop"
    /\ r_max \in 1..CreateRetries
    /\ r_attempt = 0
    /\ r_tries = 0
    /\ r_driver = FALSE
    /\ r_service = FALSE

NextRecreate ==
    \/ CreateAttemptOk
    \/ CreateAttemptFail
    \/ FetchBegin(FirstFetcher)
    \/ AcquireHeld(FirstFetcher)
    \/ AcquireSetupOk(FirstFetcher)
    \/ AcquireSetupFail(FirstFetcher)
    \/ NavOk(FirstFetcher)
    \/ NavFail(FirstFetcher)
    \/ RestartNotNeeded(FirstFetcher)
    \/ RestartSetupOk(FirstFetcher)
    \/ RestartSetupFail(FirstFetcher)
    \/ ReacquireHeld(FirstFetcher)
    \/ ReacquireSetupOk(FirstFetcher)
    \/ ReacquireSetupFail(FirstFetcher)
    \/ LastNavOk(FirstFetcher)
    \/ LastNavFail(FirstFetcher)
    \/ ParseOk(FirstFetcher)
    \/ ParseFail(FirstFetcher)
    \/ FallbackOk(FirstFetcher)
    \/ FallbackFail(FirstFetcher)
    \/ SessionCrash

SpecRecreate == InitRecreate /\ [][NextRecreate]_vars

(***************************************************************************)
(* C31: create_driver makes at most max_retries creation attempts; it      *)
(* returns at the first attempt that succeeds, holding a driver and its    *)
(* service; when max_retries attempts have failed it raises with neither a *)
(* driver nor a service left.  In the chain, a call in which no session    *)
(* could be created goes on to the static fetch and returns its record.    *)
(***************************************************************************)
C31_RecreationBounded ==
    /\ r_tries <= r_max
    /\ r_tries \in {r_attempt, r_attempt + 1}
    /\ r_pc = "loop" => (r_tries = r_attempt /\ r_attempt < r_max
                            /\ ~r_driver /\ ~r_service)
    /\ r_pc = "returned" => (r_tries = r_attempt + 1 /\ r_driver /\ r_service)
    /\ r_pc = "raised" => (r_tries = r_max /\ ~r_driver /\ ~r_service)
    /\ \A w \in Fetchers :
          fw[w].noDriver =>
              /\ fw[w].pc \in {"fallback", "returned"}
              /\ fw[w].pc = "returned" =>
                    /\ fw[w].served = "static"
                    /\ fw[w].result \in {FallbackRecord, FallbackErrorRecord}

\* three attempts have failed and create_driver has raised; in the chain the
\* session could not be recreated after the failed navigations and the static
\* record was returned
C31_Witness ==
    /\ r_pc = "raised"
    /\ r_tries = CreateRetries
    /\ \E w \in Fetchers :
          /\ fw[w].noDriver
          /\ fw[w].navFails = max_page_retries
          /\ fw[w].pc = "returned"
          /\ fw[w].result = FallbackRecord

(***************************************************************************)
(* C32: the batch buffer                                                   *)
(***************************************************************************)
\* the records the threads of the current batch have returned so far
ReturnedRecords ==
    { Enrich(fetched[i], i) :
        i \in { j \in SeqToSet(batches[batch_idx]) : outcome[j] = "kept" } }

\* the buffer followed by the results as_completed has still to yield
BufferAndQueue == batch_data \o Flatten(completedQ)

RangeFor(i) ==
    IF \E k \in 1..Len(NIKAYA_RANGES) :
          NIKAYA_RANGES[k].start <= i /\ i <= NIKAYA_RANGES[k].end
    THEN (CHOOSE info \in SeqToSet(NIKAYA_RANGES) : info.start <= i /\ i <= info.end).key
    ELSE "None"

\* C34: every record of a batch file written by the call is the record of an
\* identifier of that file's chunk which was kept: sutta_number is that
\* identifier, nikaya is the key of the range holding it ("None" when none
\* does) and word_counts is there with the counts of the two texts fetched.
C34_RecordsEnriched ==
    \A j \in written :
        ValidJson(batch_files[j]) =>
            \A k \in 1..Len(batch_files[j]) :
                LET r == batch_files[j][k] IN
                    \E i \in SeqToSet(batches[j]) :
                        /\ outcome[i] = "kept"
                        /\ r.sutta_number = i
                        /\ r.nikaya = RangeFor(i)
                        /\ "word_counts" \in DOMAIN r
                        /\ r.word_counts.sinhala = WordCount(fetched[i].sinhala)
                        /\ r.word_counts.pali = WordCount(fetched[i].pali)

\* a file holds the record of an identifier in no range next to the record of
\* the first identifier of digha
C34_Witness ==
    \E j \in written :
        /\ ValidJson(batch_files[j])
        /\ \E k, l \in 1..Len(batch_files[j]) :
              /\ batch_files[j][k].nikaya = "None"
              /\ batch_files[j][l].nikaya = "digha"
              /\ batch_files[j][l].sutta_number = NIKAYA_RANGES[1].start

(***************************************************************************)
(* C35: the record of a failed request is an error in both modes           *)
(***************************************************************************)
\* the identifiers whose static fetch returned the record of a request error
RequestFailedIds == {i \in Ids : outcome[i] # "none" /\ fetched[i].error}

\* the worker of identifier i completes in this step
Completes(i) == outcome[i] = "none" /\ outcome'[i] # "none"

LogEntryCount(file) == IF ValidJson(file) THEN Len(file) ELSE 0

\* C36: in a run that starts with no error log and fresh counters, the number
\* of entries of the error log equals error_count after every worker
\* completion, also when a write of the log has failed.
C36_LogLengthEqualsErrorCount ==
    LogEntryCount(error_log_file) = error_count

(***************************************************************************)
(* C37: the checkpoint file and the counters in memory                     *)
(***************************************************************************)
CheckpointErrors ==
    IF progress_file = <<>> THEN 0 ELSE json_load_int(progress_file[1].error_count)

\* a call of scrape_bulk is running
InBulkCall == pc \in {"batch", "summary"}

\* the counts of the checkpoint are counts the counters have had in this call
CheckpointOfThisCall ==
    /\ runStart.scraped <= CheckpointScraped
    /\ CheckpointScraped <= scraped_count
    /\ runStart.errors <= CheckpointErrors
    /\ CheckpointErrors <= error_count

\* the checkpoint file is there and holds the two counters as they are now
CheckpointIsCounters ==
    /\ progress_file # <<>>
    /\ ValidJson(progress_file)
    /\ CheckpointScraped = scraped_count
    /\ CheckpointErrors = error_count

OutsideNikayaCall == pc = "nikaya_idle"

\* C38: whenever scrape_nikaya has returned or raised, output_dir is what it
\* was before the call (the directory the orchestrator was made with, since
\* every earlier call left it so); a call with a key that is not configured
\* raises without changing any field of the orchestrator or any file; the
\* paths of the checkpoint and of the error log are the ones __init__ made,
\* at every moment.
C38_OutputDirRestored ==
    /\ [](OutsideNikayaCall => output_dir = BaseDir)
    /\ [](file_paths = PathsOf(BaseDir))
    /\ [][(\E nikaya_key \in n_called' \ n_called : nikaya_key \notin NikayaKeys) =>
             (n_last' = "invalid_key" /\ UNCHANGED <<orchVars, output_dir, file_paths>>)]_vars

\* the three keys have been used: one call raised on the key that is not
\* configured, one returned after writing a batch file, the last one raised
\* out of save_batch
C38_Witness ==
    /\ OutsideNikayaCall
    /\ n_called = NikayaArgs
    /\ n_last = "raised"
    /\ scraped_count > 0
    /\ output_dir = BaseDir

(***************************************************************************)
(* scraper/persistent_webdriver.py: the methods of the manager, called one *)
(* after the other                                                         *)
(***************************************************************************)
\* calls of get_driver, cleanup and restart_if_needed that are followed
MaxManagerCalls == 4

ManagerRest ==
    UNCHANGED <<orchVars, fetchVars, lookupVars, validVars, lockVars, allVars, enumVars,
                testVars, cadVars, robustVars, acVars, nikVars>>

Created(id) == [op |-> "create", id |-> id]

\* _setup_driver, lines 47-54, with `created` sessions made before: the
\* session is made and kept; or the driver binary or the browser does not
\* start (lines 48-49 raise) and _driver is None; or set_page_load_timeout
\* (line 50) raises on the session just made and line 54 lets go of it
_setup_driver(created) ==
    { [driver |-> created + 1, alive |-> TRUE, created |-> created + 1,
       log |-> << Created(created + 1) >>],
      [driver |-> 0, alive |-> FALSE, created |-> created, log |-> <<>>],
      [driver |-> 0, alive |-> FALSE, created |-> created + 1,
       log |-> << Created(created + 1), [op |-> "let_go", id |-> created + 1] >>] }

\* get_driver setting a session up at every call
NeedsSetupAlways(driver) == TRUE

\* get_driver, line 58: if self._driver is None
NeedsSetup(driver) == driver = 0

\* cleanup, lines 66-73, on the session `driver`: quit() returns or raises,
\* and the finally clause sets _driver to None
cleanup(driver) ==
    IF driver = 0 THEN { <<>> }
    ELSE { << [op |-> "quit", id |-> driver] >>,
           << [op |-> "quit_raised", id |-> driver] >> }

\* webdriver_manager = PersistentWebDriver() at import: __init__ has run
\* _setup_driver once
InitManager ==
    /\ AsCompletedParked
    /\ NikayaParked
    /\ RobustParked
    /\ CadParked
    /\ TestParked
    /\ EnumParked
    /\ LockParked
    /\ AllParked
    /\ OrchParked
    /\ FetchParked
    /\ LookupParked
    /\ ValidParked
    /\ \E r \in _setup_driver(0) :
          /\ m_driver = r.driver
          /\ m_alive = r.alive
          /\ m_created = r.created
          /\ m_log = r.log
    /\ m_calls = 0
    /\ m_last = "none"

\* get_driver, lines 56-62
ManagerGetDriver ==
    /\ m_calls < MaxManagerCalls
    /\ m_calls' = m_calls + 1
    /\ m_last' = "get_driver"
    /\ IF NeedsSetup(m_driver)
       THEN \E r \in _setup_driver(m_created) :
               /\ m_driver' = r.driver
               /\ m_alive' = r.alive
               /\ m_created' = r.created
               /\ m_log' = m_log \o r.log
       ELSE UNCHANGED <<m_driver, m_alive, m_created, m_log>>
    /\ ManagerRest

\* cleanup, lines 64-73
ManagerCleanup ==
    /\ m_calls < MaxManagerCalls
    /\ m_calls' = m_calls + 1
    /\ m_last' = "cleanup"
    /\ \E done \in cleanup(m_driver) : m_log' = m_log \o done
    /\ m_driver' = 0
    /\ m_alive' = FALSE
    /\ UNCHANGED m_created
    /\ ManagerRest

\* restart_if_needed, lines 75-84: nothing is held or the session answers
\* the probe of line 80
ManagerRestartNotNeeded ==
    /\ m_calls < MaxManagerCalls
    /\ m_driver = 0 \/ m_alive
    /\ m_calls' = m_calls + 1
    /\ m_last' = "restart_if_needed"
    /\ UNCHANGED <<m_driver, m_alive, m_created, m_log>>
    /\ ManagerRest

\* restart_if_needed, lines 81-84: the probe raises; cleanup, then _setup_driver
ManagerRestart ==
    /\ m_calls < MaxManagerCalls
    /\ m_driver # 0
    /\ ~m_alive
    /\ m_calls' = m_calls + 1
    /\ m_last' = "restart_if_needed"
    /\ \E done \in cleanup(m_driver), r \in _setup_driver(m_created) :
          /\ m_driver' = r.driver
          /\ m_alive' = r.alive
          /\ m_created' = r.created
          /\ m_log' = m_log \o done \o r.log
    /\ ManagerRest

\* the browser behind the session held stops answering
ManagerSessionDies ==
    /\ m_driver # 0
    /\ m_alive
    /\ m_alive' = FALSE
    /\ UNCHANGED <<m_driver, m_created, m_calls, m_last, m_log>>
    /\ ManagerRest

NextManager ==
    \/ ManagerGetDriver
    \/ ManagerCleanup
    \/ ManagerRestartNotNeeded
    \/ ManagerRestart
    \/ ManagerSessionDies

SpecManager == InitManager /\ [][NextManager]_vars

(***************************************************************************)
(* C39: the manager holds at most one session                              *)
(***************************************************************************)
RECURSIVE HeldAfter(_)
\* the sessions the manager holds after the events of `log`
HeldAfter(log) ==
    IF log = <<>> THEN {}
    ELSE LET before == HeldAfter(SubSeq(log, 1, Len(log) - 1))
             event == log[Len(log)]
         IN IF event.op = "create" THEN before \cup {event.id}
            ELSE before \ {event.id}

\* C39: called one after the other in any order, get_driver,
\* restart_if_needed and cleanup never leave the manager with two sessions,
\* not even in the middle of a call: a session is only created when none is
\* held (get_driver creates none while one is held, a restart has called
\* quit() on the old one and let go of it before it creates the new one), and
\* every call of cleanup, with quit() returning or raising, ends with no
\* session held.
C39_AtMostOneSessionHeld ==
    /\ [](/\ \A k \in 0..Len(m_log) : Cardinality(HeldAfter(SubSeq(m_log, 1, k))) <= 1
          /\ HeldAfter(m_log) = (IF m_driver = 0 THEN {} ELSE {m_driver}))
    /\ [][(m_calls' # m_calls /\ m_last' = "cleanup") => m_driver' = 0]_vars
    /\ [][(m_calls' # m_calls /\ m_last' = "get_driver" /\ m_driver # 0) =>
             UNCHANGED <<m_driver, m_created, m_log>>]_vars
    /\ [][(m_calls' # m_calls /\ m_last' = "restart_if_needed" /\ m_created' # m_created
              /\ m_driver # 0) =>
             \E k \in 1..Len(m_log') :
                 /\ k > Len(m_log)
                 /\ m_log'[k].op \in {"quit", "quit_raised"}
                 /\ m_log'[k].id = m_driver
                 /\ m_log'[k + 1] = Created(m_created + 1)]_vars

\* a restart replaced a session whose quit() raised, and a later cleanup left
\* the manager with nothing
C39_Witness ==
    /\ m_last = "cleanup"
    /\ m_driver = 0
    /\ \E k \in 1..(Len(m_log) - 2) :
          /\ m_log[k].op = "quit_raised"
          /\ m_log[k + 1].op = "create"
          /\ m_log[Len(m_log)].op \in {"quit", "quit_raised"}
          /\ m_log[Len(m_log)].id = m_log[k + 1].id

=============================================================================
